---------------------------- MODULE Spec2Model ----------------------------
(***************************************************************************)
(* State-machine model of the SIVI validator front end: the finding        *)
(* identity, grouping, status store and bulk-propagation logic of          *)
(* src/frontend/app.js (grouped view) and of the table-view build of the   *)
(* same application (src/unnamed/part_000).                                *)
(*                                                                         *)
(* Strings of the program are sequences of one-character strings, so that  *)
(* split, join and concatenation are computed and not assumed.  A nullable *)
(* value is a sequence of length 0 (null) or 1.  Findings are objects: a   *)
(* finding is referred to by its position in allFindings (1-based here,    *)
(* the JavaScript index is the position minus one).                        *)
(***************************************************************************)
EXTENDS Integers, Sequences, FiniteSets, TLC

(***************************************************************************)
(* Bounds of the model.                                                    *)
(***************************************************************************)
\* the findings of a validation result
MaxFindings == 3
\* the status selects a reviewer changes in one run
MaxEdits == 2
\* the findings of an imported session are at most MaxMembers
MaxMembers == 4
MaxTimers == 2
\* the findings of a session whose progress is shown are at most MaxReviewed
MaxReviewed == 40
\* the findings of a large result, where one finding is less than half a percent
MaxLarge == 201

(***************************************************************************)
(* Status constants.                                                       *)
(***************************************************************************)
STATUS_OPEN == "OPEN"
STATUS_GEACCEPTEERD == "GEACCEPTEERD"
STATUS_GENEGEERD == "GENEGEERD"
STATUS_OPGELOST == "OPGELOST"

\* the four options every status select offers
StatusOptions == {STATUS_OPEN, STATUS_GEACCEPTEERD, STATUS_GENEGEERD, STATUS_OPGELOST}

(***************************************************************************)
(* String helpers (JavaScript String / Array methods).                     *)
(***************************************************************************)
RECURSIVE Split(_, _)
\* s.split(c): the pieces of s between the occurrences of the character c
Split(s, c) ==
    IF \A i \in 1..Len(s) : s[i] # c
    THEN <<s>>
    ELSE LET k == CHOOSE i \in 1..Len(s) : s[i] = c /\ \A j \in 1..(i - 1) : s[j] # c
         IN  <<SubSeq(s, 1, k - 1)>> \o Split(SubSeq(s, k + 1, Len(s)), c)

RECURSIVE Join(_, _)
\* parts.join(c)
Join(parts, c) ==
    IF parts = <<>> THEN <<>>
    ELSE IF Len(parts) = 1 THEN parts[1]
    ELSE parts[1] \o <<c>> \o Join(Tail(parts), c)

\* parts.slice(1)
Slice1(parts) == IF parts = <<>> THEN <<>> ELSE Tail(parts)

DigitChar(d) == CASE d = 0 -> "0" [] d = 1 -> "1" [] d = 2 -> "2" [] d = 3 -> "3"
                  [] d = 4 -> "4" [] d = 5 -> "5" [] d = 6 -> "6" [] d = 7 -> "7"
                  [] d = 8 -> "8" [] d = 9 -> "9"

RECURSIVE NumStr(_)
\* the decimal string of a number, as a template literal prints it
NumStr(n) ==
    IF n < 0 THEN <<"-">> \o NumStr(0 - n)
    ELSE IF n < 10 THEN <<DigitChar(n)>>
    ELSE NumStr(n \div 10) \o <<DigitChar(n % 10)>>

\* String.prototype.toLowerCase on one character
LowerChar(c) ==
    CASE c = "A" -> "a" [] c = "B" -> "b" [] c = "C" -> "c" [] c = "D" -> "d"
      [] c = "E" -> "e" [] c = "F" -> "f" [] c = "G" -> "g" [] c = "H" -> "h"
      [] c = "I" -> "i" [] c = "J" -> "j" [] c = "K" -> "k" [] c = "L" -> "l"
      [] c = "M" -> "m" [] c = "N" -> "n" [] c = "O" -> "o" [] c = "P" -> "p"
      [] c = "Q" -> "q" [] c = "R" -> "r" [] c = "S" -> "s" [] c = "T" -> "t"
      [] c = "U" -> "u" [] c = "V" -> "v" [] c = "W" -> "w" [] c = "X" -> "x"
      [] c = "Y" -> "y" [] c = "Z" -> "z" [] OTHER -> c

ToLowerCase(s) == [i \in 1..Len(s) |-> LowerChar(s[i])]

RECURSIVE Trim(_)
\* String.prototype.trim
Trim(s) ==
    IF s = <<>> THEN s
    ELSE IF Head(s) = " " THEN Trim(Tail(s))
    ELSE IF s[Len(s)] = " " THEN Trim(SubSeq(s, 1, Len(s) - 1))
    ELSE s

\* String.prototype.includes
Includes(s, sub) ==
    \E i \in 0..(Len(s) - Len(sub)) : SubSeq(s, i + 1, i + Len(sub)) = sub

(***************************************************************************)
(* Identity derivation.                                                    *)
(***************************************************************************)
\* finding.label ? finding.label.split('_').slice(1).join('_') : ''
LabelSuffix(finding) ==
    IF finding.label = <<>> THEN <<>>
    ELSE Join(Slice1(Split(finding.label, "_")), "_")

\* as generateFindingId, but the index is left out
generateFindingIdWithoutIndex(finding, index) ==
    finding.contract \o <<":">> \o finding.entiteit \o <<":">> \o finding.code
        \o <<":">> \o LabelSuffix(finding)

\* the id of a finding for a JavaScript index (0-based)
generateFindingId(finding, index) ==
    finding.contract \o <<":">> \o finding.entiteit \o <<":">> \o finding.code
        \o <<":">> \o LabelSuffix(finding) \o <<":">> \o NumStr(index)

getBulkKey(finding) == finding.code \o <<":">> \o LabelSuffix(finding)

getGroupKey(finding) ==
    finding.code \o <<"|">> \o LabelSuffix(finding) \o <<"|">> \o finding.omschrijving


(***************************************************************************)
(* Categorisation and themes.                                              *)
(***************************************************************************)
\* the values of waarde that count as missing
MissingValues ==
    { <<>>, <<"0">>, <<"0", ".", "0", "0">>, <<"0", ",", "0", "0">>,
      <<"n", "u", "l", "l">>, <<"u", "n", "d", "e", "f", "i", "n", "e", "d">> }

\* the substrings of omschrijving that indicate a missing value
MissingWords ==
    { <<"o", "n", "t", "b", "r", "e", "e", "k", "t">>,
      <<"o", "n", "t", "b", "r", "e", "k", "e", "n", "d">>,
      <<"l", "e", "e", "g">>,
      <<"n", "i", "e", "t", " ", "i", "n", "g", "e", "v", "u", "l", "d">>,
      <<"v", "e", "r", "p", "l", "i", "c", "h", "t">>,
      <<"m", "i", "s", "s", "i", "n", "g">> }

\* as categorizeFinding, but waarde is compared as it is written
categorizeFindingWithoutTrim(finding) ==
    LET waarde == ToLowerCase(finding.waarde)
        omschrijving == ToLowerCase(finding.omschrijving)
    IN  IF waarde \in MissingValues THEN "ontbrekend"
        ELSE IF \E w \in MissingWords : Includes(omschrijving, w) THEN "ontbrekend"
        ELSE "inhoudelijk"

categorizeFinding(finding) ==
    LET waarde == ToLowerCase(Trim(finding.waarde))
        omschrijving == ToLowerCase(finding.omschrijving)
    IN  IF waarde \in MissingValues THEN "ontbrekend"
        ELSE IF \E w \in MissingWords : Includes(omschrijving, w) THEN "ontbrekend"
        ELSE "inhoudelijk"

\* the error code "E<e>-0<a><b>"
Code(e, a, b) == <<"E", e, "-", "0", a, b>>

\* two of the names every object literal inherits from Object.prototype
ConstructorName == << "c", "o", "n", "s", "t", "r", "u", "c", "t", "o", "r" >>
ToStringName == << "t", "o", "S", "t", "r", "i", "n", "g" >>

\* themaMapping[code] || 'overig': the lookup in the object literal also
\* finds the members of Object.prototype, which are functions and truthy; a
\* function is written here as the text "function <name>"
getThema(finding) ==
    LET code == finding.code
    IN  CASE code \in {Code("1", "0", "6"), Code("1", "0", "8"), Code("2", "0", "4")}
               -> "structuur"
          [] code \in {Code("1", "0", "1"), Code("1", "0", "5"), Code("1", "0", "7")}
               -> "labels"
          [] code \in {Code("1", "0", "2"), Code("1", "0", "9")} -> "codes"
          [] code \in {Code("1", "0", "3"), Code("1", "0", "4"), Code("1", "1", "0"),
                       Code("2", "0", "7")} -> "format"
          [] code \in {Code("2", "0", "2"), Code("2", "0", "5"), Code("2", "1", "0")}
               -> "premie"
          [] code \in {Code("2", "0", "6"), Code("2", "1", "4")} -> "datums"
          [] code \in {Code("2", "1", "3"), Code("2", "1", "6"), Code("2", "1", "7")}
               -> "branche"
          [] code \in {Code("2", "0", "8"), Code("2", "1", "1")} -> "validatie"
          [] code = ConstructorName -> "function Object"
          [] code = ToStringName -> "function toString"
          [] OTHER -> "overig"

\* sortOrder[thema] || 99: the same lookup, in the object literal sortOrder
getThemaSortOrder(thema) ==
    CASE thema = "structuur" -> 1 [] thema = "labels" -> 2 [] thema = "codes" -> 3
      [] thema = "format" -> 4 [] thema = "premie" -> 5 [] thema = "datums" -> 6
      [] thema = "branche" -> 7 [] thema = "validatie" -> 8 [] thema = "overig" -> 9
      [] thema = "constructor" -> "function Object"
      [] thema = "toString" -> "function toString"
      [] OTHER -> 99

(***************************************************************************)
(* The findings a validation response may carry.  A missing field is the   *)
(* empty string, as every use of a field falls back to ''.                 *)
(***************************************************************************)
BaseFinding ==
    [ contract |-> <<"c">>, entiteit |-> <<"e">>, code |-> Code("1", "0", "1"),
      label |-> <<"P", "P", "_", "B">>, omschrijving |-> <<"m">>, waarde |-> <<"1">>,
      verwacht |-> <<>>, bron |-> <<>>,
      criticality |-> "KRITIEK", severity |-> "FOUT", engine |-> "1" ]

\* Four findings: the first two agree on every field an id is made of and
\* differ in criticality; the third shares their BulkKey but not their
\* group (another description, a missing value); the fourth has another
\* code, of another theme.
PoolSeq ==
    << BaseFinding,
       [BaseFinding EXCEPT !.criticality = "AANDACHT"],
       [BaseFinding EXCEPT !.contract = <<"d">>, !.label = <<"Q", "_", "B">>,
                           !.omschrijving = <<"l", "e", "e", "g">>, !.waarde = <<>>,
                           !.criticality = "AANDACHT"],
       [BaseFinding EXCEPT !.code = Code("2", "0", "2")] >>

FindingPool == {PoolSeq[i] : i \in 1..Len(PoolSeq)}

RECURSIVE SeqsUpTo(_, _)
\* the sequences over S of length at most n
SeqsUpTo(S, n) ==
    IF n = 0 THEN {<<>>}
    ELSE LET shorter == SeqsUpTo(S, n - 1)
         IN  shorter \cup {Append(q, x) : q \in {r \in shorter : Len(r) = n - 1}, x \in S}

\* validationResult.findings of a response: at most MaxFindings pool
\* findings, listed in the order of the pool
FindingLists ==
    LET ranks == {q \in SeqsUpTo(1..Len(PoolSeq), MaxFindings) :
                     \A i \in 1..(Len(q) - 1) : q[i] <= q[i + 1]}
    IN  {[i \in 1..Len(q) |-> PoolSeq[q[i]]] : q \in ranks}

FileNames == {<<"f">>}
Timestamps == {<<"t">>}

\* validationResult.findings of a session file: one to MaxMembers findings of
\* one theme, in two groups
SessionFindingLists ==
    LET ranks == {q \in SeqsUpTo({1, 3}, MaxMembers) :
                     /\ q # <<>>
                     /\ \A i \in 1..(Len(q) - 1) : q[i] <= q[i + 1]}
    IN  {[i \in 1..Len(q) |-> PoolSeq[q[i]]] : q \in ranks}

\* Findings whose fields hold the separator of the id: a label suffix that
\* ends in ":1", a contract that holds ":" with an empty entiteit, a label
\* without suffix, an entiteit that ends in ":".
IdentityPoolSeq ==
    << BaseFinding,
       [BaseFinding EXCEPT !.label = <<"P", "_", "B", ":", "1">>],
       [BaseFinding EXCEPT !.contract = <<"c", ":", "e">>, !.entiteit = <<>>],
       [BaseFinding EXCEPT !.label = <<"P">>],
       [BaseFinding EXCEPT !.entiteit = <<"e", ":">>] >>

IdentityPool == {IdentityPoolSeq[i] : i \in 1..Len(IdentityPoolSeq)}

\* validationResult.findings of a result: one to MaxFindings findings of the
\* identity pool, in any order, repeated or not
IdentityLists == SeqsUpTo(IdentityPool, MaxFindings) \ {<<>>}

\* Findings for the categorisation, the themes and the grouping: a plain
\* content error; a value that is missing once trimmed and case-folded; a
\* description that says so; codes that name members of Object.prototype,
\* in three groups; two pairs whose fields hold the separator of the group
\* key; no code at all.
GroupingPoolSeq ==
    << BaseFinding,
       [BaseFinding EXCEPT !.waarde = <<" ", "N", "U", "L", "L">>],
       [BaseFinding EXCEPT !.omschrijving = <<"L", "e", "e", "g">>],
       [BaseFinding EXCEPT !.code = ConstructorName],
       [BaseFinding EXCEPT !.code = ToStringName],
       [BaseFinding EXCEPT !.code = ConstructorName, !.omschrijving = <<"n">>],
       [BaseFinding EXCEPT !.label = <<"P", "_", "B", "|", "m">>, !.omschrijving = <<"n">>],
       [BaseFinding EXCEPT !.omschrijving = <<"m", "|", "n">>],
       [BaseFinding EXCEPT !.code = Code("1", "0", "1") \o <<"|", "B">>, !.label = <<"P">>],
       [BaseFinding EXCEPT !.label = <<"P", "_", "B", "|">>],
       [BaseFinding EXCEPT !.code = <<>>] >>

GroupingPool == {GroupingPoolSeq[i] : i \in 1..Len(GroupingPoolSeq)}

\* validationResult.findings of a result: one to MaxFindings findings of the
\* grouping pool, in the order of the pool
GroupingLists ==
    LET ranks == {q \in SeqsUpTo(1..Len(GroupingPoolSeq), MaxFindings) :
                     /\ q # <<>>
                     /\ \A i \in 1..(Len(q) - 1) : q[i] <= q[i + 1]}
    IN  {[i \in 1..Len(q) |-> GroupingPoolSeq[q[i]]] : q \in ranks}

\* every finding of the model
ModelledFindings == FindingPool \cup IdentityPool \cup GroupingPool

(***************************************************************************)
(* The derived attributes of the pool findings, evaluated once.  FindingId *)
(* is generateFindingId, BulkKey getBulkKey, and so on, on pool findings.  *)
(***************************************************************************)
IdTable ==
    [f \in ModelledFindings |->
        [i \in 0..(MaxFindings + MaxMembers + MaxReviewed + MaxLarge) |->
            generateFindingId(f, i)]]
BulkKeyTable == [f \in ModelledFindings |-> getBulkKey(f)]
GroupKeyTable == [f \in ModelledFindings |-> getGroupKey(f)]
ThemaTable == [f \in ModelledFindings |-> getThema(f)]
CategoryTable == [f \in ModelledFindings |-> categorizeFinding(f)]

FindingId(finding, index) == IdTable[finding][index]
BulkKey(finding) == BulkKeyTable[finding]
GroupKey(finding) == GroupKeyTable[finding]
Thema(finding) == ThemaTable[finding]
Category(finding) == CategoryTable[finding]

(***************************************************************************)
(* The state of the application.                                           *)
(***************************************************************************)
VARIABLES
    build,              \* which front end is loaded: "table" or "grouped"
    selectedFile,       \* null or the selected file
    validationResult,   \* null or the result of the validator
    allFindings,        \* the findings of the result
    findingStatuses,    \* FindingId -> Status, absent ids are OPEN
    fileValidationId,   \* null or "<fileName>-<timestamp>"
    storage,            \* localStorage: key -> stored entry
    filters,            \* the values of the five filter controls
    currentCategory,    \* the active category tab
    pendingBulkAction,  \* null or the edit waiting for confirmation
    inFlight,           \* null or the validation request awaiting its response
    dom,                \* what the last render put on the page
    edits,              \* the number of status selects changed so far
    last,               \* the handler that ran last, with its arguments
    originalXmlContent, \* null or the text of the validated document
    errorToast,         \* null or the error message on display
    downloads,          \* null or the session file downloaded last
    quotaExceeded,      \* whether localStorage refuses further writes
    view,               \* the view that is not hidden: "upload" or "results"
    timers,             \* the view switches scheduled and not yet run, oldest first
    peer                \* the state of a second page of the same origin, which shares storage

vars == << build, selectedFile, validationResult, allFindings, findingStatuses,
           fileValidationId, storage, filters, currentCategory, pendingBulkAction,
           inFlight, dom, edits, last, originalXmlContent, errorToast, downloads,
           quotaExceeded, view, timers, peer >>

\* null
Null == <<>>
\* a non-null value
Some(x) == <<x>>

(***************************************************************************)
(* The status store.                                                       *)
(***************************************************************************)
\* findingStatuses[findingId] || STATUS_OPEN
StatusGet(statuses, findingId) ==
    IF findingId \in DOMAIN statuses THEN statuses[findingId] ELSE STATUS_OPEN

\* findingStatuses[findingId] = newStatus
StatusSet(statuses, findingId, newStatus) ==
    [k \in (DOMAIN statuses) \cup {findingId} |->
        IF k = findingId THEN newStatus ELSE statuses[k]]

RECURSIVE StatusSetAll(_, _, _)
\* one assignment per id, in the order of the list
StatusSetAll(statuses, findingIds, newStatus) ==
    IF findingIds = <<>> THEN statuses
    ELSE StatusSetAll(StatusSet(statuses, Head(findingIds), newStatus),
                      Tail(findingIds), newStatus)

\* the empty object {}
EmptyStatuses == [k \in {} |-> STATUS_OPEN]

(***************************************************************************)
(* Persistence.                                                            *)
(***************************************************************************)
StoragePrefix ==
    << "s", "i", "v", "i", "-", "v", "a", "l", "i", "d", "a", "t", "o", "r", "-",
       "s", "t", "a", "t", "u", "s", "e", "s", "-" >>

\* `${fileName}-${timestamp}`
FileValidationIdOf(fileName, timestamp) == fileName \o <<"-">> \o timestamp

getStorageKey(fvid) == StoragePrefix \o fvid

\* A stored entry is the text of a localStorage item as JSON.parse reads it:
\* json is "object" for the text of an object, "null" for the text null and
\* "invalid" for a text that does not parse; statuses is null when the
\* object has none.
StoredEntry(version, fileName, timestamp, statuses) ==
    [ json |-> "object", version |-> version, fileName |-> fileName,
      validationTimestamp |-> timestamp, statuses |-> statuses ]

\* as saveStatusesToStorage, but the write empties the rest of localStorage
saveStatusesToStorageAlone(store, fvid, file, result, statuses) ==
    IF fvid = Null \/ quotaExceeded THEN store
    ELSE LET key == getStorageKey(fvid[1])
             data == StoredEntry(1,
                         IF file # Null THEN file[1].name ELSE <<>>,
                         IF result # Null THEN result[1].timestamp ELSE <<>>,
                         Some(statuses))
         IN  [k \in {key} |-> data]

\* as saveStatusesToStorage, but the statuses stored under the key by another
\* writer are kept where the writer has none of its own
saveStatusesToStorageMerging(store, fvid, file, result, statuses) ==
    IF fvid = Null \/ quotaExceeded THEN store
    ELSE LET key == getStorageKey(fvid[1])
             stored == IF key \in DOMAIN store /\ store[key].json = "object"
                          /\ store[key].statuses # Null
                       THEN store[key].statuses[1] ELSE EmptyStatuses
             merged == [id \in (DOMAIN stored) \cup (DOMAIN statuses) |->
                           IF id \in DOMAIN statuses THEN statuses[id] ELSE stored[id]]
             data == StoredEntry(1,
                         IF file # Null THEN file[1].name ELSE <<>>,
                         IF result # Null THEN result[1].timestamp ELSE <<>>,
                         Some(merged))
         IN  [k \in (DOMAIN store) \cup {key} |-> IF k = key THEN data ELSE store[k]]

\* as saveStatusesToStorage, but a refused write takes the old entry with it
saveStatusesToStorageLosingEntry(store, fvid, file, result, statuses) ==
    IF fvid = Null THEN store
    ELSE LET key == getStorageKey(fvid[1])
             data == StoredEntry(1,
                         IF file # Null THEN file[1].name ELSE <<>>,
                         IF result # Null THEN result[1].timestamp ELSE <<>>,
                         Some(statuses))
         IN  IF quotaExceeded
             THEN [k \in (DOMAIN store) \ {key} |-> store[k]]
             ELSE [k \in (DOMAIN store) \cup {key} |-> IF k = key THEN data ELSE store[k]]

\* localStorage after saveStatusesToStorage: setItem throws when the quota
\* is exceeded, and the exception is caught
saveStatusesToStorage(store, fvid, file, result, statuses) ==
    IF fvid = Null \/ quotaExceeded THEN store
    ELSE LET key == getStorageKey(fvid[1])
             data == StoredEntry(1,
                         IF file # Null THEN file[1].name ELSE <<>>,
                         IF result # Null THEN result[1].timestamp ELSE <<>>,
                         Some(statuses))
         IN  [k \in (DOMAIN store) \cup {key} |-> IF k = key THEN data ELSE store[k]]

\* findingStatuses after loadStatusesFromStorage
loadStatusesFromStorage(store, fvid, statuses) ==
    IF fvid = Null THEN statuses
    ELSE LET key == getStorageKey(fvid[1])
         IN  IF key \notin DOMAIN store THEN statuses
             ELSE IF store[key].json # "object" THEN EmptyStatuses
             ELSE IF store[key].version = 1 /\ store[key].statuses # Null
                  THEN store[key].statuses[1]
                  ELSE statuses

(***************************************************************************)
(* Filtering.  A filtered list is a list of positions in allFindings: the  *)
(* filter keeps the finding objects themselves.                            *)
(***************************************************************************)
\* the fields searched, joined by a blank, empty fields dropped
SearchFields(finding) ==
    LET fields == << finding.code, finding.contract, finding.entiteit, finding.label,
                     finding.waarde, finding.omschrijving, finding.verwacht,
                     finding.bron >>
        IsSet(f) == f # <<>>
    IN  ToLowerCase(Join(SelectSeq(fields, IsSet), " "))

\* the predicate of filterFindings for the finding at position p
PassesFilter(findings, statuses, flt, p) ==
    LET finding == findings[p]
        searchValue == Trim(ToLowerCase(flt.search))
    IN  /\ flt.criticality = "all" \/ finding.criticality = flt.criticality
        /\ flt.status = "all"
             \/ StatusGet(statuses, FindingId(finding, p - 1)) = flt.status
        /\ flt.severity = "all" \/ finding.severity = flt.severity
        /\ flt.engine = "all" \/ finding.engine = flt.engine
        /\ searchValue = <<>> \/ Includes(SearchFields(finding), searchValue)

filterFindings(findings, statuses, flt) ==
    LET Keep(p) == PassesFilter(findings, statuses, flt, p)
    IN  SelectSeq([p \in 1..Len(findings) |-> p], Keep)

\* the category filter applied after filterFindings
categoryFilter(findings, positions, category) ==
    LET Keep(p) == category = "all" \/ Category(findings[p]) = category
    IN  SelectSeq(positions, Keep)

(***************************************************************************)
(* Grouping.                                                               *)
(***************************************************************************)
\* allFindings.indexOf(finding): the index of that object in allFindings
IndexOf(findings, p) == p - 1

\* the member record pushed for the finding at position p
GroupMember(findings, p) ==
    [ pos |-> p, findingId |-> FindingId(findings[p], IndexOf(findings, p)) ]

\* the groups of the findings at the given positions, in insertion order:
\* a group per distinct key, placed where its key first occurs, holding
\* the members with that key in the order of the positions
groupFindings(findings, positions) ==
    LET KeyAt(i) == GroupKey(findings[positions[i]])
        IsFirst(i) == \A j \in 1..(i - 1) : KeyAt(j) # KeyAt(i)
        firsts == SelectSeq([i \in 1..Len(positions) |-> i], IsFirst)
        MembersOf(groupKey) ==
            LET HasKey(p) == GroupKey(findings[p]) = groupKey
                members == SelectSeq(positions, HasKey)
            IN  [m \in 1..Len(members) |-> GroupMember(findings, members[m])]
    IN  [g \in 1..Len(firsts) |->
            [ key |-> KeyAt(firsts[g]),
              thema |-> Thema(findings[positions[firsts[g]]]),
              category |-> Category(findings[positions[firsts[g]]]),
              findings |-> MembersOf(KeyAt(firsts[g])) ]]

\* the comparator of the display order: negative when a sorts before b
CompareGroups(a, b) ==
    IF getThemaSortOrder(a.thema) # getThemaSortOrder(b.thema)
    THEN getThemaSortOrder(a.thema) - getThemaSortOrder(b.thema)
    ELSE Len(b.findings) - Len(a.findings)

RECURSIVE SortGroups(_)
\* Array.prototype.sort with CompareGroups (a stable sort)
SortGroups(groups) ==
    IF groups = <<>> THEN <<>>
    ELSE LET sorted == SortGroups(SubSeq(groups, 1, Len(groups) - 1))
             g == groups[Len(groups)]
             \* g goes after every element that does not sort after it
             n == Cardinality({i \in 1..Len(sorted) : CompareGroups(sorted[i], g) <= 0})
         IN  SubSeq(sorted, 1, n) \o <<g>> \o SubSeq(sorted, n + 1, Len(sorted))

\* the group with a key, or null
GroupByKey(groups, groupKey) ==
    IF \E i \in 1..Len(groups) : groups[i].key = groupKey
    THEN Some(groups[CHOOSE i \in 1..Len(groups) : groups[i].key = groupKey])
    ELSE Null

(***************************************************************************)
(* Dominant status.  A statusCounts object is the list of its entries      *)
(* <<status, count>> in insertion order.                                   *)
(***************************************************************************)
\* statusCounts[status] = (statusCounts[status] || 0) + 1, for each status:
\* an entry per status, placed where the status is first counted
CountStatuses(counts, statusList) ==
    LET Counted(st) == \E i \in 1..Len(counts) : counts[i][1] = st
        IsNew(k) == /\ ~Counted(statusList[k])
                    /\ \A j \in 1..(k - 1) : statusList[j] # statusList[k]
        firsts == SelectSeq([k \in 1..Len(statusList) |-> k], IsNew)
        TimesCounted(st) == Cardinality({k \in 1..Len(statusList) : statusList[k] = st})
    IN  [i \in 1..Len(counts) |-> <<counts[i][1], counts[i][2] + TimesCounted(counts[i][1])>>]
        \o [i \in 1..Len(firsts) |->
                <<statusList[firsts[i]], TimesCounted(statusList[firsts[i]])>>]

RECURSIVE SortByCountDescTiesLast(_)
\* a sort that puts an entry before the earlier entries of the same count
SortByCountDescTiesLast(entries) ==
    IF entries = <<>> THEN <<>>
    ELSE LET sorted == SortByCountDescTiesLast(SubSeq(entries, 1, Len(entries) - 1))
             e == entries[Len(entries)]
             n == Cardinality({i \in 1..Len(sorted) : e[2] - sorted[i][2] < 0})
         IN  SubSeq(sorted, 1, n) \o <<e>> \o SubSeq(sorted, n + 1, Len(sorted))

RECURSIVE SortByCountDesc(_)
\* Object.entries(statusCounts).sort((a, b) => b[1] - a[1]) (a stable sort)
SortByCountDesc(entries) ==
    IF entries = <<>> THEN <<>>
    ELSE LET sorted == SortByCountDesc(SubSeq(entries, 1, Len(entries) - 1))
             e == entries[Len(entries)]
             n == Cardinality({i \in 1..Len(sorted) : e[2] - sorted[i][2] <= 0})
         IN  SubSeq(sorted, 1, n) \o <<e>> \o SubSeq(sorted, n + 1, Len(sorted))

\* a test that looks at the first counted status only
HasOpenFirstOnly(counts) == counts[1][1] = STATUS_OPEN /\ counts[1][2] > 0

\* statusCounts[STATUS_OPEN] > 0
HasOpen(counts) == \E i \in 1..Len(counts) : counts[i][1] = STATUS_OPEN /\ counts[i][2] > 0

getThemaDominantStatus(statusCounts) ==
    IF Len(statusCounts) = 0 THEN STATUS_OPEN
    ELSE IF Len(statusCounts) = 1 THEN statusCounts[1][1]
    ELSE IF HasOpen(statusCounts) THEN STATUS_OPEN
    ELSE SortByCountDesc(statusCounts)[1][1]

\* the statuses of the members of a group, in member order
MemberStatuses(group, statuses) ==
    [i \in 1..Len(group.findings) |-> StatusGet(statuses, group.findings[i].findingId)]

getGroupDominantStatus(group, statuses) ==
    LET statusCounts == CountStatuses(<<>>, MemberStatuses(group, statuses))
    IN  IF Len(statusCounts) = 1 THEN statusCounts[1][1]
        ELSE IF HasOpen(statusCounts) THEN STATUS_OPEN
        ELSE SortByCountDesc(statusCounts)[1][1]

(***************************************************************************)
(* The progress bar.  JavaScript numbers are IEEE 754 doubles: a positive  *)
(* double is written [exp, bits] with 53 bits, most significant first, the *)
(* first bit 1 and of weight 2^exp.  Division and multiplication round     *)
(* their exact result to the nearest double, ties to the even one.         *)
(***************************************************************************)
RECURSIVE Increment(_)
\* a list of bits plus one; the carry may lengthen the list
Increment(bits) ==
    IF bits = <<>> THEN <<1>>
    ELSE IF bits[Len(bits)] = 0 THEN [bits EXCEPT ![Len(bits)] = 1]
    ELSE Append(Increment(SubSeq(bits, 1, Len(bits) - 1)), 0)

RECURSIVE BitsValue(_, _)
\* the number the first n bits of a list stand for
BitsValue(bits, n) ==
    IF n = 0 THEN 0 ELSE 2 * BitsValue(bits, n - 1) + bits[n]

RECURSIVE DivBits(_, _, _)
\* the first n bits of r / t for t <= r < 2t, followed by one bit that
\* tells whether anything is left
DivBits(r, t, n) ==
    IF n = 0 THEN << IF r > 0 THEN 1 ELSE 0 >>
    ELSE IF r >= t THEN <<1>> \o DivBits(2 * (r - t), t, n - 1)
    ELSE <<0>> \o DivBits(2 * r, t, n - 1)

\* the double nearest to the exact result bits (at least 53 of them, the
\* first 1 and of weight 2^exp): round to nearest, ties to even
RoundToDouble(bits, exp) ==
    LET kept == SubSeq(bits, 1, 53)
        dropped == SubSeq(bits, 54, Len(bits))
        up == /\ dropped # <<>>
              /\ dropped[1] = 1
              /\ kept[53] = 1 \/ \E i \in 2..Len(dropped) : dropped[i] = 1
        next == Increment(kept)
    IN  IF ~up THEN [exp |-> exp, bits |-> kept]
        ELSE IF Len(next) = 54 THEN [exp |-> exp + 1, bits |-> SubSeq(next, 1, 53)]
        ELSE [exp |-> exp, bits |-> next]

\* Math.round((handled / total) * 100) for 0 < handled <= total
Percentage(handled, total) ==
    LET \* handled / total
        k == CHOOSE n \in 0..30 :
                 handled * 2^n >= total /\ (n > 0 => handled * 2^(n - 1) < total)
        quotient == RoundToDouble(DivBits(handled * 2^k, total, 54), 0 - k)
        \* ... * 100: the 53 bits in three parts of 17, 18 and 18 bits, each
        \* times 100 with the carry of the part after it, 60 bits in all
        m == quotient.bits
        low == 100 * BitsValue(SubSeq(m, 36, 53), 18)
        middle == 100 * BitsValue(SubSeq(m, 18, 35), 18) + low \div 2^18
        high == 100 * BitsValue(SubSeq(m, 1, 17), 17) + middle \div 2^18
        Bits(n, width) == [i \in 1..width |-> (n \div 2^(width - i)) % 2]
        exact == Bits(high, 24) \o Bits(middle % 2^18, 18) \o Bits(low % 2^18, 18)
        product == IF exact[1] = 1
                   THEN RoundToDouble(exact, quotient.exp + 7)
                   ELSE RoundToDouble(Tail(exact), quotient.exp + 6)
        \* Math.round: the nearest integer, a half goes up
        e == product.exp
    IN  IF e < -1 THEN 0
        ELSE IF e = -1 THEN 1
        ELSE BitsValue(product.bits, e + 1) + product.bits[e + 2]

\* the percentages of the progress bar, evaluated once: of the small results
\* and of the large ones
PercentageTable ==
    [total \in (1..(MaxFindings + MaxMembers + MaxReviewed)) \cup ((MaxLarge - 1)..MaxLarge) |->
        [handled \in 1..total |-> Percentage(handled, total)]]

\* the progress text after updateProgressBar
updateProgressBar(findings, statuses) ==
    LET total == Len(findings)
        handled == Cardinality({p \in 1..total :
                       StatusGet(statuses, FindingId(findings[p], p - 1)) # STATUS_OPEN})
    IN  Some([ handled |-> handled, total |-> total,
               percentage |-> IF total > 0 /\ handled > 0
                              THEN PercentageTable[total][handled] ELSE 0 ])

\* the number of the findings of a list that have a criticality; a finding
\* without one counts as AANDACHT
CountOf(findings, positions, criticalities) ==
    Cardinality({p \in positions : findings[p].criticality \in criticalities})

\* the summary cards after updateSummaryCardsFromStatus: OPEN findings only
updateSummaryCardsFromStatus(findings, statuses) ==
    LET open == {p \in 1..Len(findings) :
                    StatusGet(statuses, FindingId(findings[p], p - 1)) = STATUS_OPEN}
    IN  Some([ kritiek |-> CountOf(findings, open, {"KRITIEK"}),
               aandacht |-> CountOf(findings, open, {"AANDACHT", ""}),
               info |-> Cardinality(open)
                            - CountOf(findings, open, {"KRITIEK", "AANDACHT", ""}),
               total |-> Cardinality(open) ])

\* validationResult.summary as the validator computes it: the findings by
\* criticality, and their number
ServerSummary(findings) ==
    [ by_criticality |->
          [ KRITIEK |-> CountOf(findings, 1..Len(findings), {"KRITIEK"}),
            AANDACHT |-> CountOf(findings, 1..Len(findings), {"AANDACHT"}),
            INFO |-> CountOf(findings, 1..Len(findings), {"INFO"}) ],
      total |-> Len(findings) ]

\* the summary cards as displayResults fills them, from the summary of the
\* result
SummaryCards(result) ==
    Some([ kritiek |-> result.summary.by_criticality.KRITIEK,
           aandacht |-> result.summary.by_criticality.AANDACHT,
           info |-> result.summary.by_criticality.INFO,
           total |-> result.summary.total ])

(***************************************************************************)
(* Rendering.  The page holds the rows of the table view, or the theme     *)
(* headers and groups of the grouped view, as the last render left them.   *)
(***************************************************************************)
\* the rows of the table: the id of a row is made from its index in the
\* filtered list
TableRows(findings, statuses, flt) ==
    LET filtered == filterFindings(findings, statuses, flt)
    IN  [i \in 1..Len(filtered) |->
            LET finding == findings[filtered[i]]
                findingId == FindingId(finding, i - 1)
            IN  [ pos |-> filtered[i],
                  findingId |-> findingId,
                  bulkKey |-> BulkKey(finding),
                  shown |-> StatusGet(statuses, findingId) ]]

\* the groups shown, in display order
SortedGroups(findings, statuses, flt, category) ==
    SortGroups(groupFindings(findings,
        categoryFilter(findings, filterFindings(findings, statuses, flt), category)))

RECURSIVE ThemaStatusList(_, _, _)
\* the statuses of the members of the groups of a theme, in display order
ThemaStatusList(sortedGroups, thema, statuses) ==
    IF sortedGroups = <<>> THEN <<>>
    ELSE (IF Head(sortedGroups).thema = thema
          THEN MemberStatuses(Head(sortedGroups), statuses) ELSE <<>>)
         \o ThemaStatusList(Tail(sortedGroups), thema, statuses)

\* themaStats[thema].statuses
ThemaStatusCounts(sortedGroups, thema, statuses) ==
    CountStatuses(<<>>, ThemaStatusList(sortedGroups, thema, statuses))

\* the theme headers: one where the theme changes
ThemaHeaders(sortedGroups, statuses) ==
    LET IsFirst(i) == i = 1 \/ sortedGroups[i].thema # sortedGroups[i - 1].thema
        firsts == SelectSeq([i \in 1..Len(sortedGroups) |-> i], IsFirst)
    IN  [j \in 1..Len(firsts) |->
            LET thema == sortedGroups[firsts[j]].thema
            IN  [ thema |-> thema,
                  count |-> Len(ThemaStatusList(sortedGroups, thema, statuses)),
                  shown |-> getThemaDominantStatus(
                                ThemaStatusCounts(sortedGroups, thema, statuses)) ]]

\* the group elements with their detail rows
GroupElements(sortedGroups, statuses) ==
    [i \in 1..Len(sortedGroups) |->
        LET group == sortedGroups[i]
        IN  [ key |-> group.key,
              thema |-> group.thema,
              shown |-> getGroupDominantStatus(group, statuses),
              members |->
                  [m \in 1..Len(group.findings) |->
                      [ pos |-> group.findings[m].pos,
                        findingId |-> group.findings[m].findingId,
                        shown |-> StatusGet(statuses, group.findings[m].findingId) ]] ]]

\* the page as loaded: no rows, no groups, counters not yet written
EmptyPage ==
    [rows |-> <<>>, themas |-> <<>>, groups |-> <<>>, progress |-> <<>>, summary |-> <<>>]

\* the page after renderFindings of the table build
renderFindingsTable(page, findings, statuses, flt) ==
    [page EXCEPT !.rows = TableRows(findings, statuses, flt)]

\* the page after renderFindingGroups of the grouped build, which ends with
\* updateProgressBar
renderFindingGroups(page, findings, statuses, flt, category) ==
    LET sortedGroups == SortedGroups(findings, statuses, flt, category)
    IN  [page EXCEPT !.themas = ThemaHeaders(sortedGroups, statuses),
                     !.groups = GroupElements(sortedGroups, statuses),
                     !.progress = updateProgressBar(findings, statuses)]

\* renderFindings: the table in the table build, the groups in the grouped build
renderFindings(b, page, findings, statuses, flt, category) ==
    IF b = "table" THEN renderFindingsTable(page, findings, statuses, flt)
    ELSE renderFindingGroups(page, findings, statuses, flt, category)

(***************************************************************************)
(* Bulk propagation.                                                       *)
(***************************************************************************)
\* the findings other than excludeFindingId that share bulkKey and are OPEN
findSimilarFindings(findings, statuses, bulkKey, excludeFindingId) ==
    LET IsSimilar(p) ==
            LET findingId == FindingId(findings[p], p - 1)
            IN  /\ findingId # excludeFindingId
                /\ BulkKey(findings[p]) = bulkKey
                /\ StatusGet(statuses, findingId) = STATUS_OPEN
        similar == SelectSeq([p \in 1..Len(findings) |-> p], IsSimilar)
    IN  [i \in 1..Len(similar) |->
            [ findingId |-> FindingId(findings[similar[i]], similar[i] - 1),
              pos |-> similar[i] ]]

\* whether handleStatusChange asks for confirmation
NeedsConfirmation(findings, statuses, findingId, newStatus, bulkKey) ==
    /\ newStatus \in {STATUS_GEACCEPTEERD, STATUS_GENEGEERD}
    /\ Len(findSimilarFindings(findings, statuses, bulkKey, findingId)) > 0

\* [pendingBulkAction.findingId, ...similarFindings.map(f => f.findingId)]
AllIds(pending) ==
    <<pending.findingId>>
        \o [i \in 1..Len(pending.similarFindings) |-> pending.similarFindings[i].findingId]

(***************************************************************************)
(* The initial state: the page is loaded, nothing is selected.             *)
(***************************************************************************)
NoFilters ==
    [criticality |-> "all", status |-> "all", severity |-> "all", engine |-> "all",
     search |-> <<>>]

NoEvent == [op |-> "init", pos |-> 0, newStatus |-> "", session |-> <<>>]

Builds == {"table", "grouped"}

\* the state that belongs to one page, after construction: the variables of
\* the script and what the page shows; localStorage belongs to the origin
FreshPage ==
    [ selectedFile |-> Null, validationResult |-> Null, allFindings |-> <<>>,
      findingStatuses |-> EmptyStatuses, fileValidationId |-> Null, filters |-> NoFilters,
      currentCategory |-> "all", pendingBulkAction |-> Null, inFlight |-> Null,
      dom |-> EmptyPage, originalXmlContent |-> Null, errorToast |-> Null,
      downloads |-> Null, view |-> "upload", timers |-> <<>> ]

Init ==
    /\ build \in Builds
    /\ selectedFile = Null
    /\ validationResult = Null
    /\ allFindings = <<>>
    /\ findingStatuses = EmptyStatuses
    /\ fileValidationId = Null
    /\ storage = [k \in {} |-> 0]
    /\ filters = NoFilters
    /\ currentCategory = "all"
    /\ pendingBulkAction = Null
    /\ inFlight = Null
    /\ dom = EmptyPage
    /\ edits = 0
    /\ last = NoEvent
    /\ originalXmlContent = Null
    /\ errorToast = Null
    /\ downloads = Null
    /\ quotaExceeded = FALSE
    /\ view = "upload"
    /\ timers = <<>>
    /\ peer = FreshPage

(***************************************************************************)
(* Upload and validation.                                                  *)
(***************************************************************************)
\* a file is chosen in the upload view
HandleFileSelect(name) ==
    /\ view = "upload"
    /\ validationResult = Null
    /\ inFlight = Null
    /\ selectedFile = Null
    /\ selectedFile' = Some([name |-> name])
    /\ errorToast' = Null
    /\ last' = [NoEvent EXCEPT !.op = "handleFileSelect"]
    /\ UNCHANGED << build, validationResult, allFindings, findingStatuses,
                    fileValidationId, storage, filters, currentCategory,
                    pendingBulkAction, inFlight, dom, edits >>
    /\ UNCHANGED << originalXmlContent, downloads, quotaExceeded, peer, view, timers >>

\* the text a selected file may hold
Docs == {<<"x">>}

\* runValidation up to its request: the validate button is disabled meanwhile
RunValidation ==
    /\ view = "upload"
    /\ selectedFile # Null
    /\ validationResult = Null
    /\ inFlight = Null
    /\ inFlight' = Some(selectedFile[1])
    /\ errorToast' = Null
    /\ \E doc \in Docs : originalXmlContent' = Some(doc)
    /\ last' = [NoEvent EXCEPT !.op = "runValidation"]
    /\ UNCHANGED << build, selectedFile, validationResult, allFindings,
                    findingStatuses, fileValidationId, storage, filters,
                    currentCategory, pendingBulkAction, dom, edits >>
    /\ UNCHANGED << downloads, quotaExceeded, peer, view, timers >>

\* the values new Date().toISOString() returns
Clock == {<<"n">>}

\* fileValidationId after generateFileValidationId
generateFileValidationId(file, result, fvid, now) ==
    IF file = Null \/ result = Null THEN fvid
    ELSE LET timestamp == IF result[1].timestamp # <<>> THEN result[1].timestamp ELSE now
         IN  Some(FileValidationIdOf(file[1].name, timestamp))

\* the response arrives: runValidation from the response on, with displayResults
ValidationResponse(findings, timestamp) ==
    /\ inFlight # Null
    /\ Len(timers) < MaxTimers
    /\ \E now \in Clock :
       LET result == Some([timestamp |-> timestamp, findings |-> findings,
                           summary |-> ServerSummary(findings)])
           fvid == generateFileValidationId(selectedFile, result, fileValidationId, now)
           statuses == loadStatusesFromStorage(storage, fvid, findingStatuses)
       IN  /\ validationResult' = result
           /\ allFindings' = findings
           /\ fileValidationId' = fvid
           /\ findingStatuses' = statuses
           /\ currentCategory' = "all"
           /\ dom' = renderFindings(build, [dom EXCEPT !.summary = SummaryCards(result[1])],
                                    findings, statuses, filters, "all")
    /\ inFlight' = Null
    /\ timers' = Append(timers, "results")
    /\ last' = [NoEvent EXCEPT !.op = "displayResults"]
    /\ UNCHANGED << build, selectedFile, storage, filters, pendingBulkAction, edits >>
    /\ UNCHANGED << originalXmlContent, errorToast, downloads, quotaExceeded, peer, view >>

(***************************************************************************)
(* Filters and category tabs.                                              *)
(***************************************************************************)
\* the options of the filter selects that the model exercises
CriticalityChoices == {"all", "AANDACHT"}
StatusChoices == {"all", STATUS_OPEN}

\* the criticality filter changes: renderFindings
CriticalityFilterChange(value) ==
    /\ view = "results"
    /\ validationResult # Null
    /\ value # filters.criticality
    /\ filters' = [filters EXCEPT !.criticality = value]
    /\ dom' = renderFindings(build, dom, allFindings, findingStatuses, filters',
                             currentCategory)
    /\ last' = [NoEvent EXCEPT !.op = "filterChange"]
    /\ UNCHANGED << build, selectedFile, validationResult, allFindings, findingStatuses,
                    fileValidationId, storage, currentCategory, pendingBulkAction,
                    inFlight, edits >>
    /\ UNCHANGED << originalXmlContent, errorToast, downloads, quotaExceeded, peer, view, timers >>

\* the status filter changes: renderFindings
StatusFilterChange(value) ==
    /\ view = "results"
    /\ validationResult # Null
    /\ value # filters.status
    /\ filters' = [filters EXCEPT !.status = value]
    /\ dom' = renderFindings(build, dom, allFindings, findingStatuses, filters',
                             currentCategory)
    /\ last' = [NoEvent EXCEPT !.op = "filterChange"]
    /\ UNCHANGED << build, selectedFile, validationResult, allFindings, findingStatuses,
                    fileValidationId, storage, currentCategory, pendingBulkAction,
                    inFlight, edits >>
    /\ UNCHANGED << originalXmlContent, errorToast, downloads, quotaExceeded, peer, view, timers >>

Categories == {"all", "inhoudelijk", "ontbrekend"}

\* a category tab is clicked (the active one too): renderFindingGroups
CategoryTabClick(category) ==
    /\ view = "results"
    /\ build = "grouped"
    /\ validationResult # Null
    /\ currentCategory' = category
    /\ dom' = renderFindingGroups(dom, allFindings, findingStatuses, filters, category)
    /\ last' = [NoEvent EXCEPT !.op = "categoryTab"]
    /\ UNCHANGED << build, selectedFile, validationResult, allFindings, findingStatuses,
                    fileValidationId, storage, filters, pendingBulkAction, inFlight, edits >>
    /\ UNCHANGED << originalXmlContent, errorToast, downloads, quotaExceeded, peer, view, timers >>

(***************************************************************************)
(* Single-finding edits and the bulk confirmation (table build).           *)
(***************************************************************************)
\* the status select of table row r changes to newStatus: handleStatusChange
StatusSelectChange(r, newStatus) ==
    /\ view = "results"
    /\ edits < MaxEdits
    /\ edits' = edits + 1
    /\ build = "table"
    /\ r \in 1..Len(dom.rows)
    /\ newStatus # dom.rows[r].shown
    /\ LET row == dom.rows[r]
           confirm == NeedsConfirmation(allFindings, findingStatuses, row.findingId,
                                        newStatus, row.bulkKey)
           statuses == StatusSet(findingStatuses, row.findingId, newStatus)
       IN  /\ dom' = [dom EXCEPT !.rows[r].shown = newStatus]
           /\ IF confirm
              THEN \* showBulkActionModal
                   /\ pendingBulkAction' =
                          Some([ pos |-> row.pos,  \* the finding of the row (bookkeeping)
                                 findingId |-> row.findingId,
                                 newStatus |-> newStatus,
                                 bulkKey |-> row.bulkKey,
                                 similarFindings |->
                                     findSimilarFindings(allFindings, findingStatuses,
                                                         row.bulkKey, row.findingId) ])
                   /\ UNCHANGED << findingStatuses, storage >>
              ELSE \* applyStatusChange
                   /\ findingStatuses' = statuses
                   /\ storage' = saveStatusesToStorage(storage, fileValidationId,
                                     selectedFile, validationResult, statuses)
                   /\ UNCHANGED pendingBulkAction
           /\ last' = [NoEvent EXCEPT !.op = "handleStatusChange", !.pos = row.pos,
                                      !.newStatus = newStatus]
    /\ UNCHANGED << build, selectedFile, validationResult, allFindings,
                    fileValidationId, filters, currentCategory, inFlight >>
    /\ UNCHANGED << originalXmlContent, errorToast, downloads, quotaExceeded, peer, view, timers >>

\* "only this one" is clicked in the confirmation
BulkActionSingleClick ==
    /\ pendingBulkAction # Null
    /\ LET pending == pendingBulkAction[1]
           statuses == StatusSet(findingStatuses, pending.findingId, pending.newStatus)
       IN  /\ findingStatuses' = statuses
           /\ storage' = saveStatusesToStorage(storage, fileValidationId, selectedFile,
                                               validationResult, statuses)
           /\ last' = [NoEvent EXCEPT !.op = "bulkActionSingle", !.pos = pending.pos,
                                      !.newStatus = pending.newStatus]
    /\ pendingBulkAction' = Null
    /\ UNCHANGED << build, selectedFile, validationResult, allFindings,
                    fileValidationId, filters, currentCategory, inFlight, dom, edits >>
    /\ UNCHANGED << originalXmlContent, errorToast, downloads, quotaExceeded, peer, view, timers >>

\* findingStatuses after applyBulkStatusChange
applyBulkStatusChange(statuses, findingIds, newStatus) ==
    StatusSetAll(statuses, findingIds, newStatus)

\* "apply to all" is clicked in the confirmation
BulkActionAllClick ==
    /\ pendingBulkAction # Null
    /\ LET pending == pendingBulkAction[1]
           statuses == applyBulkStatusChange(findingStatuses, AllIds(pending),
                                             pending.newStatus)
       IN  /\ findingStatuses' = statuses
           /\ storage' = saveStatusesToStorage(storage, fileValidationId, selectedFile,
                                               validationResult, statuses)
           /\ last' = [NoEvent EXCEPT !.op = "bulkActionAll", !.pos = pending.pos,
                                      !.newStatus = pending.newStatus]
    /\ pendingBulkAction' = Null
    /\ UNCHANGED << build, selectedFile, validationResult, allFindings,
                    fileValidationId, filters, currentCategory, inFlight, dom, edits >>
    /\ UNCHANGED << originalXmlContent, errorToast, downloads, quotaExceeded, peer, view, timers >>

\* the rows after the backdrop click set the first select carrying the
\* pending id back to the stored status of that id
RestoreSelect(rows, statuses, findingId) ==
    IF \E r \in 1..Len(rows) : rows[r].findingId = findingId
    THEN LET first == CHOOSE r \in 1..Len(rows) :
                          /\ rows[r].findingId = findingId
                          /\ \A q \in 1..(r - 1) : rows[q].findingId # findingId
         IN  [rows EXCEPT ![first].shown = StatusGet(statuses, findingId)]
    ELSE rows

\* the backdrop of the confirmation is clicked: the edit is cancelled
ModalBackdropClick ==
    /\ pendingBulkAction # Null
    /\ LET pending == pendingBulkAction[1]
       IN  /\ dom' = [dom EXCEPT !.rows = RestoreSelect(dom.rows, findingStatuses,
                                                        pending.findingId)]
           /\ last' = [NoEvent EXCEPT !.op = "cancel", !.pos = pending.pos,
                                      !.newStatus = pending.newStatus]
    /\ pendingBulkAction' = Null
    /\ UNCHANGED << build, selectedFile, validationResult, allFindings, findingStatuses,
                    fileValidationId, storage, filters, currentCategory, inFlight, edits >>
    /\ UNCHANGED << originalXmlContent, errorToast, downloads, quotaExceeded, peer, view, timers >>

(***************************************************************************)
(* Edits in the grouped view.                                              *)
(***************************************************************************)
RECURSIVE ThemaIds(_, _)
\* the ids applyThemaStatusChange assigns: every finding of the theme
ThemaIds(findings, thema) ==
    IF findings = <<>> THEN <<>>
    ELSE ThemaIds(SubSeq(findings, 1, Len(findings) - 1), thema)
         \o (IF Thema(findings[Len(findings)]) = thema
             THEN <<FindingId(findings[Len(findings)], Len(findings) - 1)>>
             ELSE <<>>)

\* findingStatuses after applyThemaStatusChange
applyThemaStatusChange(findings, statuses, thema, newStatus) ==
    StatusSetAll(statuses, ThemaIds(findings, thema), newStatus)

\* the status select of theme header t changes to newStatus
ThemaStatusChange(t, newStatus) ==
    /\ view = "results"
    /\ edits < MaxEdits
    /\ edits' = edits + 1
    /\ build = "grouped"
    /\ t \in 1..Len(dom.themas)
    /\ newStatus # dom.themas[t].shown
    /\ LET thema == dom.themas[t].thema
           statuses == applyThemaStatusChange(allFindings, findingStatuses, thema,
                                              newStatus)
       IN  /\ findingStatuses' = statuses
           /\ storage' = saveStatusesToStorage(storage, fileValidationId, selectedFile,
                                               validationResult, statuses)
           /\ dom' = renderFindingGroups(
                          [dom EXCEPT !.summary =
                               updateSummaryCardsFromStatus(allFindings, statuses)],
                          allFindings, statuses, filters, currentCategory)
           /\ last' = [NoEvent EXCEPT !.op = "applyThemaStatusChange",
                                      !.newStatus = newStatus]
    /\ UNCHANGED << build, selectedFile, validationResult, allFindings,
                    fileValidationId, filters, currentCategory, pendingBulkAction,
                    inFlight >>
    /\ UNCHANGED << originalXmlContent, errorToast, downloads, quotaExceeded, peer, view, timers >>

\* groups[groupKey] of the groups recomputed from the current filters
CurrentGroup(findings, statuses, flt, category, groupKey) ==
    GroupByKey(groupFindings(findings,
                   categoryFilter(findings, filterFindings(findings, statuses, flt),
                                  category)),
               groupKey)

\* the ids applyGroupStatusChange assigns: the members of the recomputed group
GroupIds(group) == [i \in 1..Len(group.findings) |-> group.findings[i].findingId]

\* a group edit that passes over the members already dispositioned
applyGroupStatusChangeOpenOnly(findings, statuses, flt, category, groupKey, newStatus) ==
    LET group == CurrentGroup(findings, statuses, flt, category, groupKey)
        open == SelectSeq(GroupIds(group[1]),
                          LAMBDA id : StatusGet(statuses, id) = STATUS_OPEN)
    IN  IF group = Null THEN statuses
        ELSE StatusSetAll(statuses, open, newStatus)

\* findingStatuses after applyGroupStatusChange
applyGroupStatusChange(findings, statuses, flt, category, groupKey, newStatus) ==
    LET group == CurrentGroup(findings, statuses, flt, category, groupKey)
    IN  IF group = Null THEN statuses
        ELSE StatusSetAll(statuses, GroupIds(group[1]), newStatus)

\* the status select of group g changes to newStatus
GroupStatusChange(g, newStatus) ==
    /\ view = "results"
    /\ edits < MaxEdits
    /\ edits' = edits + 1
    /\ build = "grouped"
    /\ g \in 1..Len(dom.groups)
    /\ newStatus # dom.groups[g].shown
    /\ LET groupKey == dom.groups[g].key
           group == CurrentGroup(allFindings, findingStatuses, filters, currentCategory,
                                 groupKey)
           statuses == applyGroupStatusChange(allFindings, findingStatuses, filters,
                                              currentCategory, groupKey, newStatus)
       IN  /\ IF group = Null
              THEN \* the group is no longer in the filtered view: nothing happens
                   /\ dom' = [dom EXCEPT !.groups[g].shown = newStatus]
                   /\ UNCHANGED << findingStatuses, storage >>
              ELSE /\ findingStatuses' = statuses
                   /\ storage' = saveStatusesToStorage(storage, fileValidationId,
                                     selectedFile, validationResult, statuses)
                   /\ dom' = renderFindingGroups(
                                  [dom EXCEPT !.summary =
                                       updateSummaryCardsFromStatus(allFindings, statuses)],
                                  allFindings, statuses, filters, currentCategory)
           /\ last' = [NoEvent EXCEPT !.op = "applyGroupStatusChange",
                                      !.newStatus = newStatus]
    /\ UNCHANGED << build, selectedFile, validationResult, allFindings,
                    fileValidationId, filters, currentCategory, pendingBulkAction,
                    inFlight >>
    /\ UNCHANGED << originalXmlContent, errorToast, downloads, quotaExceeded, peer, view, timers >>

\* the group elements after updateGroupStatusSelect(groupKey)
updateGroupStatusSelect(groups, findings, statuses, flt, category, groupKey) ==
    LET group == CurrentGroup(findings, statuses, flt, category, groupKey)
    IN  IF group = Null THEN groups
        ELSE [i \in 1..Len(groups) |->
                 IF groups[i].key = groupKey
                 THEN [groups[i] EXCEPT !.shown = getGroupDominantStatus(group[1], statuses)]
                 ELSE groups[i]]

\* the status select of detail row m of group g changes to newStatus:
\* applyStatusChange, then updateGroupStatusSelect
DetailStatusChange(g, m, newStatus) ==
    /\ view = "results"
    /\ edits < MaxEdits
    /\ edits' = edits + 1
    /\ build = "grouped"
    /\ g \in 1..Len(dom.groups)
    /\ m \in 1..Len(dom.groups[g].members)
    /\ newStatus # dom.groups[g].members[m].shown
    /\ LET member == dom.groups[g].members[m]
           statuses == StatusSet(findingStatuses, member.findingId, newStatus)
           edited == [dom.groups EXCEPT ![g].members[m].shown = newStatus]
       IN  /\ findingStatuses' = statuses
           /\ storage' = saveStatusesToStorage(storage, fileValidationId, selectedFile,
                                               validationResult, statuses)
           /\ dom' = [dom EXCEPT !.groups =
                          updateGroupStatusSelect(edited, allFindings, statuses, filters,
                                                  currentCategory, dom.groups[g].key),
                                     !.progress = updateProgressBar(allFindings, statuses),
                                     !.summary =
                                         updateSummaryCardsFromStatus(allFindings, statuses)]
           /\ last' = [NoEvent EXCEPT !.op = "detailStatusChange", !.pos = member.pos,
                                      !.newStatus = newStatus]
    /\ UNCHANGED << build, selectedFile, validationResult, allFindings,
                    fileValidationId, filters, currentCategory, pendingBulkAction,
                    inFlight >>
    /\ UNCHANGED << originalXmlContent, errorToast, downloads, quotaExceeded, peer, view, timers >>

(***************************************************************************)
(* Sessions.                                                               *)
(***************************************************************************)
\* the status maps a session file may carry for a list of findings: any
\* status for any of its findings, or none
SessionStatuses(findings) ==
    LET ids == {FindingId(findings[i], i - 1) : i \in 1..Len(findings)}
    IN  UNION {[D -> StatusOptions] : D \in SUBSET ids}

\* a well-formed session file, as JSON.parse reads it (json as in a stored
\* entry); an absent field is the empty string
SessionFile(name, timestamp, findings, statuses) ==
    [ json |-> "object", version |-> 1, type |-> "sivi-session",
      timestamp |-> <<"s">>, fileName |-> name,
      validationResult |-> [timestamp |-> timestamp, findings |-> findings,
                            summary |-> ServerSummary(findings)],
      findingStatuses |-> statuses, xmlContent |-> Null ]

LoadedSessionName ==
    << "G", "e", "l", "a", "d", "e", "n", " ", "s", "e", "s", "s", "i", "e" >>
UnknownXml == << "u", "n", "k", "n", "o", "w", "n", ".", "x", "m", "l" >>
\* an undefined value inside a template literal
TemplateText(x) ==
    IF x = <<>> THEN << "u", "n", "d", "e", "f", "i", "n", "e", "d" >> ELSE x

\* as sessionError, but the type of the file is not looked at
sessionErrorIgnoringType(session) ==
    IF session.json # "object" THEN Some("Kon sessie bestand niet laden")
    ELSE IF session.validationResult = Null
    THEN Some("Sessie bevat geen validatie resultaten.")
    ELSE Null

\* null, or the message shown for a file that is not a session: JSON.parse
\* throws (or loadSession throws on null), the type is wrong, or there is
\* no validationResult
sessionError(session) ==
    IF session.json # "object" THEN Some("Kon sessie bestand niet laden")
    ELSE IF session.type # "sivi-session" THEN Some("Ongeldig sessie bestand formaat.")
    ELSE IF session.validationResult = Null
    THEN Some("Sessie bevat geen validatie resultaten.")
    ELSE Null

\* handleSessionFileSelect from the parse on, and loadSession with its
\* displayResults and showResultsView
LoadSession(session) ==
    /\ build = "grouped"
    /\ IF sessionError(session) # Null
       THEN /\ errorToast' = sessionError(session)
            /\ UNCHANGED << validationResult, allFindings, selectedFile, fileValidationId,
                            findingStatuses, currentCategory, dom, originalXmlContent,
                            timers >>
       ELSE /\ Len(timers) < MaxTimers
            /\ \E now \in Clock :
               LET result == Some(session.validationResult)
                   file == Some([name |-> IF session.fileName # <<>> THEN session.fileName
                                          ELSE LoadedSessionName])
                   timestamp == IF session.validationResult.timestamp # <<>>
                                THEN session.validationResult.timestamp
                                ELSE session.timestamp
                   fvid == generateFileValidationId(file, result,
                               Some(FileValidationIdOf(TemplateText(session.fileName),
                                                       TemplateText(timestamp))),
                               now)
                   statuses == loadStatusesFromStorage(storage, fvid, session.findingStatuses)
               IN  /\ validationResult' = result
                   /\ allFindings' = session.validationResult.findings
                   /\ originalXmlContent' = session.xmlContent
                   /\ selectedFile' = file
                   /\ fileValidationId' = fvid
                   /\ findingStatuses' = statuses
                   /\ currentCategory' = "all"
                   /\ dom' = renderFindingGroups(
                                  [dom EXCEPT !.summary = SummaryCards(result[1])],
                                  session.validationResult.findings, statuses, filters,
                                  "all")
            /\ timers' = Append(timers, "results")
            /\ errorToast' = Some("Sessie geladen")
    /\ last' = [NoEvent EXCEPT !.op = "loadSession", !.session = Some(session)]
    /\ UNCHANGED << build, storage, filters, pendingBulkAction, inFlight, edits >>
    /\ UNCHANGED << downloads, quotaExceeded, peer, view >>

\* the session button: downloadSession
DownloadSession ==
    /\ build = "grouped"
    /\ IF validationResult = Null
       THEN /\ errorToast' = Some("Geen validatie resultaten om op te slaan.")
            /\ UNCHANGED downloads
       ELSE /\ \E now \in Clock :
                downloads' =
                    Some([ json |-> "object", version |-> 1, type |-> "sivi-session",
                           timestamp |-> now,
                           fileName |-> IF selectedFile # Null /\ selectedFile[1].name # <<>>
                                        THEN selectedFile[1].name
                                        ELSE UnknownXml,
                           validationResult |-> validationResult[1],
                           findingStatuses |-> findingStatuses,
                           xmlContent |-> originalXmlContent ])
            /\ UNCHANGED errorToast
    /\ last' = [NoEvent EXCEPT !.op = "downloadSession"]
    /\ UNCHANGED << build, selectedFile, validationResult, allFindings, findingStatuses,
                    fileValidationId, storage, filters, currentCategory, pendingBulkAction,
                    inFlight, dom, edits, originalXmlContent, quotaExceeded, peer, view, timers >>

(***************************************************************************)
(* Navigation, and what the page does not control.                         *)
(***************************************************************************)
\* the remove button of the selected file: clearFile
ClearFile ==
    /\ view = "upload"
    /\ selectedFile # Null
    /\ selectedFile' = Null
    /\ last' = [NoEvent EXCEPT !.op = "clearFile"]
    /\ UNCHANGED << build, validationResult, allFindings, findingStatuses,
                    fileValidationId, storage, filters, currentCategory, pendingBulkAction,
                    inFlight, dom, edits, originalXmlContent, errorToast, downloads,
                    quotaExceeded, peer, view, timers >>

\* the request fails or the server answers with an error: the catch and the
\* finally of runValidation
ValidationError ==
    /\ inFlight # Null
    /\ inFlight' = Null
    /\ errorToast' = Some("Server error")
    /\ last' = [NoEvent EXCEPT !.op = "validationError"]
    /\ UNCHANGED << build, selectedFile, validationResult, allFindings, findingStatuses,
                    fileValidationId, storage, filters, currentCategory, pendingBulkAction,
                    dom, edits, originalXmlContent, downloads, quotaExceeded, peer, view,
                    timers >>

\* the back button: showUploadView up to its timer
BackClick ==
    /\ view = "results"
    /\ Len(timers) < MaxTimers
    /\ timers' = Append(timers, "upload")
    /\ last' = [NoEvent EXCEPT !.op = "showUploadView"]
    /\ UNCHANGED << build, selectedFile, validationResult, allFindings, findingStatuses,
                    fileValidationId, storage, filters, currentCategory, pendingBulkAction,
                    inFlight, dom, edits, originalXmlContent, errorToast, downloads,
                    quotaExceeded, peer, view >>

\* the oldest scheduled view switch runs: the timer of showResultsView, or
\* the timer of showUploadView with its hideResults
TimerFires ==
    /\ timers # <<>>
    /\ timers' = Tail(timers)
    /\ IF Head(timers) = "results"
       THEN /\ view' = "results"
            /\ last' = [NoEvent EXCEPT !.op = "showResultsView"]
            /\ UNCHANGED << validationResult, allFindings, findingStatuses,
                            fileValidationId, originalXmlContent, currentCategory >>
       ELSE /\ view' = "upload"
            /\ validationResult' = Null
            /\ allFindings' = <<>>
            /\ findingStatuses' = EmptyStatuses
            /\ fileValidationId' = Null
            /\ originalXmlContent' = Null
            /\ currentCategory' = "all"
            /\ last' = [NoEvent EXCEPT !.op = "hideResults"]
    /\ UNCHANGED << build, selectedFile, storage, filters, pendingBulkAction, inFlight,
                    dom, edits, errorToast, downloads, quotaExceeded, peer >>

\* the timer of a toast runs: hideError
HideError ==
    /\ errorToast # Null
    /\ errorToast' = Null
    /\ UNCHANGED << build, selectedFile, validationResult, allFindings, findingStatuses,
                    fileValidationId, storage, filters, currentCategory, pendingBulkAction,
                    inFlight, dom, edits, last, originalXmlContent, downloads,
                    quotaExceeded, peer, view, timers >>

\* the origin runs out of storage quota: setItem throws from now on
StorageFills ==
    /\ ~quotaExceeded
    /\ quotaExceeded' = TRUE
    /\ UNCHANGED << build, selectedFile, validationResult, allFindings, findingStatuses,
                    fileValidationId, storage, filters, currentCategory, pendingBulkAction,
                    inFlight, dom, edits, last, originalXmlContent, errorToast, downloads,
                    view, timers, peer >>

\* the page that handles events, as the state of one page
ThisPage ==
    [ selectedFile |-> selectedFile, validationResult |-> validationResult,
      allFindings |-> allFindings, findingStatuses |-> findingStatuses,
      fileValidationId |-> fileValidationId, filters |-> filters,
      currentCategory |-> currentCategory, pendingBulkAction |-> pendingBulkAction,
      inFlight |-> inFlight, dom |-> dom, originalXmlContent |-> originalXmlContent,
      errorToast |-> errorToast, downloads |-> downloads, view |-> view,
      timers |-> timers ]

\* the next event goes to the other page of the origin: the two pages change
\* places, and localStorage with its quota stays where it is
SwitchSession ==
    /\ peer' = ThisPage
    /\ selectedFile' = peer.selectedFile
    /\ validationResult' = peer.validationResult
    /\ allFindings' = peer.allFindings
    /\ findingStatuses' = peer.findingStatuses
    /\ fileValidationId' = peer.fileValidationId
    /\ filters' = peer.filters
    /\ currentCategory' = peer.currentCategory
    /\ pendingBulkAction' = peer.pendingBulkAction
    /\ inFlight' = peer.inFlight
    /\ dom' = peer.dom
    /\ originalXmlContent' = peer.originalXmlContent
    /\ errorToast' = peer.errorToast
    /\ downloads' = peer.downloads
    /\ view' = peer.view
    /\ timers' = peer.timers
    /\ UNCHANGED << build, storage, edits, last, quotaExceeded >>

(***************************************************************************)
(* The specification.                                                      *)
(***************************************************************************)
\* the steps both builds have
NextCommon ==
    \/ \E name \in FileNames : HandleFileSelect(name)
    \/ RunValidation
    \/ \E findings \in FindingLists, timestamp \in Timestamps :
           ValidationResponse(findings, timestamp)
    \/ \E value \in CriticalityChoices : CriticalityFilterChange(value)
    \/ \E value \in StatusChoices : StatusFilterChange(value)
    \/ TimerFires

\* the table build (src/unnamed/part_000): single edits with confirmation
NextTable ==
    \/ NextCommon
    \/ \E r \in 1..MaxFindings, newStatus \in StatusOptions :
           StatusSelectChange(r, newStatus)
    \/ BulkActionSingleClick
    \/ BulkActionAllClick
    \/ ModalBackdropClick

\* the grouped build (src/frontend/app.js): category tabs, theme, group and
\* detail edits
NextGrouped ==
    \/ NextCommon
    \/ \E category \in Categories : CategoryTabClick(category)
    \/ \E t \in 1..MaxFindings, newStatus \in StatusOptions :
           ThemaStatusChange(t, newStatus)
    \/ \E g \in 1..MaxFindings, newStatus \in StatusOptions :
           GroupStatusChange(g, newStatus)
    \/ \E g \in 1..MaxFindings, m \in 1..MaxFindings, newStatus \in StatusOptions :
           DetailStatusChange(g, m, newStatus)

Next == NextTable \/ NextGrouped

Spec == Init /\ [][Next]_vars

\* the page of the table build after construction
InitTable == Init /\ build = "table"

SpecTable == InitTable /\ [][NextTable]_vars

\* the page of the grouped build after construction
InitGrouped == Init /\ build = "grouped"

SpecGrouped == InitGrouped /\ [][NextGrouped]_vars

\* a session file is loaded into the freshly opened page
NextSession ==
    /\ validationResult = Null
    /\ \E name \in FileNames, timestamp \in Timestamps, findings \in SessionFindingLists :
           \E statuses \in SessionStatuses(findings) :
               LoadSession(SessionFile(name, timestamp, findings, statuses))

SpecSession == InitGrouped /\ [][NextSession]_vars

(***************************************************************************)
(* Persistence across validations, imports and back navigations (grouped   *)
(* build).  localStorage outlives the page: at load it may hold an entry   *)
(* under the key of the file about to be validated, written by an earlier  *)
(* visit, by another version of the page or by anything else of the        *)
(* origin.                                                                 *)
(***************************************************************************)
\* the result of the validator in these runs: two findings of one theme, in
\* two groups
PersistFindingLists == {<< PoolSeq[1], PoolSeq[3] >>}

\* a status map an earlier review of PoolSeq[1] left behind
EarlierStatuses == [k \in {FindingId(PoolSeq[1], 0)} |-> STATUS_GEACCEPTEERD]

\* the entries localStorage may hold at load under one key
EntriesAtLoad ==
    { StoredEntry(1, <<"f">>, <<"t">>, Some(EarlierStatuses)),
      StoredEntry(2, <<"f">>, <<"t">>, Some(EarlierStatuses)),
      StoredEntry(1, <<"f">>, <<"t">>, Null),
      [StoredEntry(0, <<>>, <<>>, Null) EXCEPT !.json = "invalid"] }

\* localStorage at load: nothing, or one entry under the key of ("f", "t")
StoredAtLoad ==
    LET key == getStorageKey(FileValidationIdOf(<<"f">>, <<"t">>))
    IN  {[k \in {} |-> 0]} \cup {[k \in {key} |-> entry] : entry \in EntriesAtLoad}

\* the page after construction, whatever localStorage holds
InitPersist ==
    /\ build = "grouped"
    /\ storage \in StoredAtLoad
    /\ selectedFile = Null
    /\ validationResult = Null
    /\ allFindings = <<>>
    /\ findingStatuses = EmptyStatuses
    /\ fileValidationId = Null
    /\ filters = NoFilters
    /\ currentCategory = "all"
    /\ pendingBulkAction = Null
    /\ inFlight = Null
    /\ dom = EmptyPage
    /\ edits = 0
    /\ last = NoEvent
    /\ originalXmlContent = Null
    /\ errorToast = Null
    /\ downloads = Null
    /\ quotaExceeded = FALSE
    /\ view = "upload"
    /\ timers = <<>>
    /\ peer = FreshPage

\* the session file imported in these runs: an earlier review of one finding
PersistSessions ==
    { SessionFile(<<"f">>, <<"t">>, << PoolSeq[1] >>,
                  [k \in {FindingId(PoolSeq[1], 0)} |-> STATUS_OPGELOST]) }

\* the statuses the reviewer picks in these runs
PersistStatuses == {STATUS_OPEN, STATUS_GEACCEPTEERD}

NextPersist ==
    \/ \E name \in FileNames : HandleFileSelect(name)
    \/ ClearFile
    \/ RunValidation
    \/ \E findings \in PersistFindingLists, timestamp \in Timestamps :
           ValidationResponse(findings, timestamp)
    \/ TimerFires
    \/ BackClick
    \/ StorageFills
    \/ \E session \in PersistSessions : LoadSession(session)
    \/ \E t \in 1..MaxFindings, newStatus \in PersistStatuses :
           ThemaStatusChange(t, newStatus)
    \/ \E g \in 1..MaxFindings, newStatus \in PersistStatuses :
           GroupStatusChange(g, newStatus)
    \/ \E g \in 1..MaxFindings, m \in 1..MaxFindings, newStatus \in PersistStatuses :
           DetailStatusChange(g, m, newStatus)

SpecPersist == InitPersist /\ [][NextPersist]_vars

(***************************************************************************)
(* Session export and import (grouped build).  A session file comes from   *)
(* downloadSession or from anywhere else: its fields are whatever its JSON *)
(* holds.                                                                  *)
(***************************************************************************)
\* the file name and the result timestamp of an imported session; <<>> is an
\* absent field
ImportArtifacts ==
    { << <<"f">>, <<"t", "-", "t">> >>, << <<"f", "-", "t">>, <<"t">> >>,
      << <<"f">>, <<>> >>, << <<>>, <<"t">> >> }

\* the status maps of imported sessions; the empty one is also what an
\* absent findingStatuses reads as
ImportStatuses ==
    {EmptyStatuses, [k \in {FindingId(PoolSeq[1], 0)} |-> STATUS_OPGELOST]}

\* session files that loadSession accepts
ImportSessions ==
    { [SessionFile(artifact[1], artifact[2], << PoolSeq[1] >>, statuses)
          EXCEPT !.xmlContent = Some(<<"y">>)] :
          artifact \in ImportArtifacts, statuses \in ImportStatuses }

\* files that are not sessions: another type, no validationResult, no JSON
RejectedSessions ==
    LET session == SessionFile(<<"f">>, <<"t">>, << PoolSeq[1] >>, EmptyStatuses)
    IN  { [session EXCEPT !.type = "other"],
          [session EXCEPT !.validationResult = Null],
          [session EXCEPT !.json = "invalid"] }

NextImport ==
    \/ \E session \in ImportSessions \cup RejectedSessions : LoadSession(session)
    \/ TimerFires
    \/ BackClick
    \/ \E g \in 1..MaxFindings, m \in 1..MaxFindings, newStatus \in PersistStatuses :
           DetailStatusChange(g, m, newStatus)

SpecImport == InitGrouped /\ [][NextImport]_vars

\* the file that downloadSession wrote is chosen in the session file input
ImportDownload == downloads # Null /\ LoadSession(downloads[1])

\* a validated file is reviewed, exported, and the exported file imported
NextExport ==
    \/ \E name \in FileNames : HandleFileSelect(name)
    \/ RunValidation
    \/ \E timestamp \in Timestamps : ValidationResponse(<< PoolSeq[1] >>, timestamp)
    \/ TimerFires
    \/ BackClick
    \/ HideError
    \/ DownloadSession
    \/ ImportDownload
    \/ \E g \in 1..MaxFindings, m \in 1..MaxFindings, newStatus \in PersistStatuses :
           DetailStatusChange(g, m, newStatus)

SpecExport == InitPersist /\ [][NextExport]_vars

\* a session whose findings hold the separator of the id is loaded into the
\* freshly opened page
NextIdentity ==
    \/ /\ validationResult = Null
       /\ \E name \in FileNames, timestamp \in Timestamps, findings \in IdentityLists :
              LoadSession(SessionFile(name, timestamp, findings, EmptyStatuses))
    \/ TimerFires

SpecIdentity == InitGrouped /\ [][NextIdentity]_vars

\* the session files of reviews under way: up to MaxReviewed findings, the
\* first of them dispositioned
ReviewedSessions ==
    UNION { { SessionFile(<<"f">>, <<"t">>, [i \in 1..total |-> BaseFinding],
                          [id \in {FindingId(BaseFinding, i - 1) : i \in 1..handled}
                              |-> STATUS_OPGELOST]) : handled \in 0..total } :
            total \in 0..MaxReviewed }

\* a session is loaded into the freshly opened page and looked at through
\* the category tabs
NextGrouping ==
    \/ /\ validationResult = Null
       /\ \/ \E name \in FileNames, timestamp \in Timestamps, findings \in GroupingLists :
                 LoadSession(SessionFile(name, timestamp, findings, EmptyStatuses))
          \/ \E session \in ReviewedSessions : LoadSession(session)
    \/ TimerFires
    \/ \E category \in Categories : CategoryTabClick(category)

SpecGrouping == InitGrouped /\ [][NextGrouping]_vars

\* two pages of one origin review the same artifact: either page validates
\* it or imports the session file of the review not yet begun
NextRace ==
    \/ \E name \in FileNames : HandleFileSelect(name)
    \/ RunValidation
    \/ \E findings \in PersistFindingLists, timestamp \in Timestamps :
           ValidationResponse(findings, timestamp)
    \/ TimerFires
    \/ \E name \in FileNames, timestamp \in Timestamps, findings \in PersistFindingLists :
           /\ validationResult = Null
           /\ LoadSession(SessionFile(name, timestamp, findings, EmptyStatuses))
    \/ \E g \in 1..2, newStatus \in PersistStatuses : GroupStatusChange(g, newStatus)
    \/ \E g \in 1..2, m \in 1..2, newStatus \in PersistStatuses :
           DetailStatusChange(g, m, newStatus)
    \/ StorageFills
    \/ SwitchSession

SpecRace == InitGrouped /\ [][NextRace]_vars

\* session files written outside the application: a review of another
\* artifact, g, and one whose findingStatuses holds a value that is no status
CraftedSessions ==
    { SessionFile(<<"g">>, <<"t">>, << PoolSeq[1] >>,
                  [k \in {FindingId(PoolSeq[1], 0)} |-> STATUS_OPGELOST]),
      SessionFile(<<"f">>, <<"t">>, << PoolSeq[1] >>,
                  [k \in {FindingId(PoolSeq[1], 0)} |-> "DONE"]) }

\* a review with back navigation: the page opens with an imported session,
\* so that every validation starts after the back button was used; a session
\* file is any JSON text of the session format, its findingStatuses may hold
\* a value that is no status; the callbacks that setTimeout schedules do run
NextBack ==
    \/ \E name \in FileNames : dom # EmptyPage /\ HandleFileSelect(name)
    \/ ClearFile
    \/ RunValidation
    \/ \E findings \in PersistFindingLists, timestamp \in Timestamps :
           ValidationResponse(findings, timestamp)
    \/ TimerFires
    \/ BackClick
    \/ \E session \in PersistSessions : LoadSession(session)
    \/ \E session \in {s \in CraftedSessions : s.fileName = <<"f">>} : LoadSession(session)
    \/ \E g \in 1..2, m \in 1..2, newStatus \in PersistStatuses :
           DetailStatusChange(g, m, newStatus)

SpecBack == InitGrouped /\ [][NextBack]_vars /\ WF_vars(TimerFires)

\* the table build with back navigation: a result of two similar findings
\* or of one other finding is reviewed, left, and another one validated
NextPending ==
    \/ \E name \in FileNames : HandleFileSelect(name)
    \/ RunValidation
    \/ \E findings \in {<< PoolSeq[1], PoolSeq[2] >>, << PoolSeq[4] >>},
          timestamp \in Timestamps :
           ValidationResponse(findings, timestamp)
    \/ TimerFires
    \/ BackClick
    \/ \E r \in 1..2, newStatus \in PersistStatuses : StatusSelectChange(r, newStatus)
    \/ BulkActionSingleClick
    \/ BulkActionAllClick
    \/ ModalBackdropClick

SpecPending == InitTable /\ [][NextPending]_vars

\* the session files of reviews of a large result: none, one, all but one or
\* all of its findings are handled
LargeSessions ==
    UNION { { SessionFile(<<"f">>, <<"t">>, [i \in 1..total |-> BaseFinding],
                          [id \in {FindingId(BaseFinding, i - 1) : i \in 1..handled}
                              |-> STATUS_OPGELOST]) : handled \in {0, 1, total - 1, total} } :
            total \in (MaxLarge - 1)..MaxLarge }

\* such a session file is loaded into the freshly opened page
NextProgress ==
    \/ validationResult = Null /\ \E session \in LargeSessions : LoadSession(session)
    \/ TimerFires
    \/ \E category \in Categories : CategoryTabClick(category)
    \/ \E m \in {1, MaxLarge - 1}, newStatus \in PersistStatuses :
           DetailStatusChange(1, m, newStatus)

SpecProgress == InitGrouped /\ [][NextProgress]_vars

(***************************************************************************)
(* Both builds with findings that share a BulkKey and a group and that the *)
(* criticality filter tells apart: single edits with the confirmation      *)
(* (table build) and group edits (grouped build) under filters.            *)
(***************************************************************************)
NextScope ==
    \/ \E name \in FileNames : HandleFileSelect(name)
    \/ RunValidation
    \/ \E findings \in {<< PoolSeq[1], PoolSeq[2], PoolSeq[3] >>}, timestamp \in Timestamps :
           ValidationResponse(findings, timestamp)
    \/ \E value \in CriticalityChoices : CriticalityFilterChange(value)
    \/ \E value \in StatusChoices : StatusFilterChange(value)
    \/ \E category \in Categories : CategoryTabClick(category)
    \/ TimerFires
    \/ \E r \in 1..MaxFindings, newStatus \in PersistStatuses :
           StatusSelectChange(r, newStatus)
    \/ BulkActionAllClick
    \/ \E g \in 1..MaxFindings, newStatus \in PersistStatuses :
           GroupStatusChange(g, newStatus)
    \/ \E g \in 1..MaxFindings, m \in 1..MaxFindings, newStatus \in PersistStatuses :
           DetailStatusChange(g, m, newStatus)

SpecScope == Init /\ [][NextScope]_vars

(***************************************************************************)
(* Both builds with everything that might touch localStorage: validation,  *)
(* back navigation, the import of a session of another artifact, one       *)
(* export, filters, the confirmation with its three answers, every edit.   *)
(***************************************************************************)
NextFrame ==
    \/ \E name \in FileNames : HandleFileSelect(name)
    \/ RunValidation
    \/ \E findings \in {<< PoolSeq[1], PoolSeq[2] >>}, timestamp \in Timestamps :
           ValidationResponse(findings, timestamp)
    \/ TimerFires
    \/ BackClick
    \/ \E session \in {s \in CraftedSessions : s.fileName = <<"g">>} : LoadSession(session)
    \/ downloads = Null /\ DownloadSession
    \/ \E value \in CriticalityChoices : CriticalityFilterChange(value)
    \/ \E r \in 1..MaxFindings, newStatus \in PersistStatuses :
           StatusSelectChange(r, newStatus)
    \/ BulkActionSingleClick
    \/ BulkActionAllClick
    \/ ModalBackdropClick
    \/ \E t \in 1..MaxFindings, newStatus \in PersistStatuses :
           ThemaStatusChange(t, newStatus)
    \/ \E g \in 1..MaxFindings, newStatus \in PersistStatuses :
           GroupStatusChange(g, newStatus)
    \/ \E g \in 1..MaxFindings, m \in 1..MaxFindings, newStatus \in PersistStatuses :
           DetailStatusChange(g, m, newStatus)

SpecFrame == Init /\ [][NextFrame]_vars

(***************************************************************************)
(* Vocabulary of the claims.  A finding is a position of allFindings; its  *)
(* status is the status stored under the id of that position.              *)
(***************************************************************************)
Positions == 1..Len(allFindings)

\* the status of the finding at position p
StatusOfPos(p) ==
    StatusGet(findingStatuses, generateFindingId(allFindings[p], p - 1))

\* the other findings that share the BulkKey of the finding at p and are OPEN
OtherOpenSimilar(p) ==
    {q \in Positions \ {p} :
        /\ getBulkKey(allFindings[q]) = getBulkKey(allFindings[p])
        /\ StatusOfPos(q) = STATUS_OPEN}

\* an edit of the finding at p to newStatus has to be confirmed
MustConfirm(p, newStatus) ==
    /\ newStatus \in {STATUS_GEACCEPTEERD, STATUS_GENEGEERD}
    /\ OtherOpenSimilar(p) # {}

\* the positions listed in a list of similar findings
SimilarPositions(similar) == {similar[i].pos : i \in 1..Len(similar)}

(***************************************************************************)
(* C1: a single-finding edit handled by handleStatusChange opens the       *)
(* confirmation (pendingBulkAction set, store unchanged) if and only if    *)
(* the new status is GEACCEPTEERD or GENEGEERD and another finding with    *)
(* the same BulkKey is OPEN; otherwise the status is written at once.      *)
(***************************************************************************)
C1_ConfirmIffSimilarOpen ==
    [][ \A r \in 1..MaxFindings, newStatus \in StatusOptions :
            StatusSelectChange(r, newStatus) =>
                LET p == dom.rows[r].pos
                IN  IF MustConfirm(p, newStatus)
                    THEN /\ pendingBulkAction' # Null
                         /\ findingStatuses' = findingStatuses
                    ELSE /\ pendingBulkAction' = pendingBulkAction
                         /\ StatusOfPos(p)' = newStatus ]_vars

(***************************************************************************)
(* C2: from every entry point of a single-finding edit (table row select,  *)
(* detail row select of the grouped view), an edit to GEACCEPTEERD or      *)
(* GENEGEERD made while another finding with the same BulkKey is OPEN does *)
(* not change the status store before the user has chosen.                 *)
(***************************************************************************)
C2_EveryEditReachesDecision ==
    [][ /\ \A r \in 1..MaxFindings, newStatus \in StatusOptions :
               (StatusSelectChange(r, newStatus)
                   /\ MustConfirm(dom.rows[r].pos, newStatus))
               => findingStatuses' = findingStatuses
        /\ \A g \in 1..MaxFindings, m \in 1..MaxFindings, newStatus \in StatusOptions :
               (DetailStatusChange(g, m, newStatus)
                   /\ MustConfirm(dom.groups[g].members[m].pos, newStatus))
               => findingStatuses' = findingStatuses ]_vars

(***************************************************************************)
(* C3: the similar set of an edit of finding e is exactly the set of the   *)
(* other findings with e's BulkKey whose status is OPEN, and the count     *)
(* reported in the confirmation is the size of that set.                   *)
(***************************************************************************)
C3_SimilarSetExact ==
    [][ \A r \in 1..MaxFindings, newStatus \in StatusOptions :
            (StatusSelectChange(r, newStatus) /\ pendingBulkAction' # pendingBulkAction)
            => LET similar == pendingBulkAction'[1].similarFindings
                   expected == OtherOpenSimilar(dom.rows[r].pos)
               IN  /\ SimilarPositions(similar) = expected
                   /\ Len(similar) = Cardinality(expected) ]_vars

(***************************************************************************)
(* C4: apply-to-all sets the edited finding and every similar OPEN finding *)
(* to the new status, leaves the status of every other finding unchanged,  *)
(* and returns to Idle.                                                    *)
(***************************************************************************)
C4_ApplyAllFrame ==
    [][ BulkActionAllClick =>
            LET pending == pendingBulkAction[1]
                target == {pending.pos} \cup OtherOpenSimilar(pending.pos)
            IN  /\ \A q \in Positions :
                       StatusOfPos(q)' =
                           IF q \in target THEN pending.newStatus ELSE StatusOfPos(q)
                /\ pendingBulkAction' = Null ]_vars

(***************************************************************************)
(* C5: apply-to-single sets only the edited finding to the new status,     *)
(* leaves the status of every other finding unchanged, and returns to Idle.*)
(***************************************************************************)
C5_ApplySingleFrame ==
    [][ BulkActionSingleClick =>
            LET pending == pendingBulkAction[1]
            IN  /\ \A q \in Positions :
                       StatusOfPos(q)' =
                           IF q = pending.pos THEN pending.newStatus ELSE StatusOfPos(q)
                /\ pendingBulkAction' = Null ]_vars

(***************************************************************************)
(* C6: cancelling a pending confirmation leaves the status store and the   *)
(* persisted entry unchanged, shows the stored status of the edited        *)
(* finding in its control again, and returns to Idle.                      *)
(***************************************************************************)
C6_CancelRestores ==
    [][ ModalBackdropClick =>
            /\ findingStatuses' = findingStatuses
            /\ storage' = storage
            /\ pendingBulkAction' = Null
            /\ \A r \in 1..Len(dom'.rows) :
                   dom'.rows[r].pos = pendingBulkAction[1].pos
                   => dom'.rows[r].shown = StatusOfPos(pendingBulkAction[1].pos) ]_vars

(***************************************************************************)
(* C7: whatever happens between raising a confirmation and committing      *)
(* apply-to-all, the commit changes the status of no finding other than    *)
(* the edited one whose status is not OPEN just before the commit.         *)
(***************************************************************************)
C7_CommitSparesDispositioned ==
    [][ BulkActionAllClick =>
            \A q \in Positions \ {pendingBulkAction[1].pos} :
                StatusOfPos(q) # STATUS_OPEN => StatusOfPos(q)' = StatusOfPos(q) ]_vars

\* the findings of the current filtered view that have the group key
FilteredMembers(groupKey) ==
    {p \in Positions :
        /\ PassesFilter(allFindings, findingStatuses, filters, p)
        /\ currentCategory = "all" \/ categorizeFinding(allFindings[p]) = currentCategory
        /\ getGroupKey(allFindings[p]) = groupKey}

ShownMemberStatuses(g) ==
    [m \in 1..Len(dom.groups[g].members) |-> StatusOfPos(dom.groups[g].members[m].pos)]

Occurrences(list, st) == Cardinality({i \in 1..Len(list) : list[i] = st})

FirstOccurrence(list, st) ==
    CHOOSE i \in 1..Len(list) : list[i] = st /\ \A j \in 1..(i - 1) : list[j] # st

StatusesOf(list) == {list[i] : i \in 1..Len(list)}

\* the most frequent status of a list, the first encountered one on a tie
MostFrequentFirst(list) ==
    CHOOSE st \in StatusesOf(list) :
        \A other \in StatusesOf(list) \ {st} :
            \/ Occurrences(list, st) > Occurrences(list, other)
            \/ /\ Occurrences(list, st) = Occurrences(list, other)
               /\ FirstOccurrence(list, st) < FirstOccurrence(list, other)

\* the dominant status of a non-empty list of member statuses, as specified
DominantStatus(list) ==
    IF Cardinality(StatusesOf(list)) = 1 THEN list[1]
    ELSE IF STATUS_OPEN \in StatusesOf(list) THEN STATUS_OPEN
    ELSE MostFrequentFirst(list)

RECURSIVE OrderingsOf(_)
\* the sequences that list every element of S once
OrderingsOf(S) ==
    IF S = {} THEN {<<>>}
    ELSE UNION {{<<x>> \o rest : rest \in OrderingsOf(S \ {x})} : x \in S}

\* the permutations of 1..n
Reorderings(n) == OrderingsOf(1..n)

\* some member is OPEN, or no two statuses other than OPEN tie for most frequent
NoTieOrOpen(list) ==
    \/ STATUS_OPEN \in StatusesOf(list)
    \/ ~ \E a, b \in StatusesOf(list) \ {STATUS_OPEN} :
           /\ a # b
           /\ Occurrences(list, a) = Occurrences(list, b)
           /\ \A c \in StatusesOf(list) : Occurrences(list, c) <= Occurrences(list, a)

\* the members of a group listed in another order
Reordered(members, perm) == [i \in 1..Len(members) |-> members[perm[i]]]

(***************************************************************************)
(* C10: the dominant status does not depend on the order of the members:   *)
(* whenever a member is OPEN or no two statuses other than OPEN tie for    *)
(* most frequent, every reordering of the statuses of the members of a     *)
(* group, and of the findings of a theme, gives the same dominant status.  *)
(***************************************************************************)
C10_OrderIndependent ==
    /\ \A g \in 1..Len(dom.groups) :
           LET members == dom.groups[g].members
           IN  NoTieOrOpen(ShownMemberStatuses(g)) =>
                   \A perm \in Reorderings(Len(members)) :
                       getGroupDominantStatus([findings |-> Reordered(members, perm)],
                                              findingStatuses)
                       = dom.groups[g].shown
    /\ \A t \in 1..Len(dom.themas) :
           LET list == ThemaStatusList(
                           SortedGroups(allFindings, findingStatuses, filters,
                                        currentCategory),
                           dom.themas[t].thema, findingStatuses)
           IN  NoTieOrOpen(list) =>
                   \A perm \in Reorderings(Len(list)) :
                       getThemaDominantStatus(CountStatuses(<<>>, Reordered(list, perm)))
                       = dom.themas[t].shown

\* a group is shown whose first member holds the less frequent of two
\* dispositions, and the more frequent one is the dominant status
C10_Witness ==
    /\ last.op = "loadSession"
    /\ \E g \in 1..Len(dom.groups) :
           /\ ShownMemberStatuses(g) = << STATUS_GEACCEPTEERD, STATUS_OPGELOST,
                                         STATUS_OPGELOST >>
           /\ dom.groups[g].shown = STATUS_OPGELOST

\* the statuses of the findings of a theme in the whole result, in the order
\* of allFindings
ThemaStatusesOfResult(thema) ==
    LET ofThema == SelectSeq([p \in Positions |-> p],
                             LAMBDA p : getThema(allFindings[p]) = thema)
    IN  [i \in 1..Len(ofThema) |-> StatusOfPos(ofThema[i])]

\* the events that end with a fresh render of the grouped view
RenderEvents ==
    {"displayResults", "filterChange", "categoryTab", "applyThemaStatusChange"}

(***************************************************************************)
(* C11: whatever the filter and the category, the dominant status shown    *)
(* in a theme header after a render is the dominant status of the statuses *)
(* of all the findings of that theme in allFindings.                       *)
(***************************************************************************)
C11_ThemaDominantOverResult ==
    last.op \in RenderEvents =>
        \A t \in 1..Len(dom.themas) :
            dom.themas[t].shown = DominantStatus(ThemaStatusesOfResult(dom.themas[t].thema))

\* the events that change the statuses of findings in the grouped build
MutationEvents ==
    {"detailStatusChange", "applyGroupStatusChange", "applyThemaStatusChange"}

\* the entry stored under the key of fvid holds exactly these statuses
StoredUnderKey(store, fvid, statuses) ==
    /\ fvid # Null
    /\ getStorageKey(fvid[1]) \in DOMAIN store
    /\ store[getStorageKey(fvid[1])].json = "object"
    /\ store[getStorageKey(fvid[1])].statuses = Some(statuses)

(***************************************************************************)
(* C12: after every edit that changes the statuses of a displayed result   *)
(* while storage accepts writes, the entry stored under the key of the     *)
(* result holds the statuses of the in-memory store.                       *)
(***************************************************************************)
C12_PersistedAfterMutation ==
    [][ ( /\ last'.op \in MutationEvents
          /\ edits' = edits + 1
          /\ validationResult # Null
          /\ findingStatuses' # findingStatuses
          /\ ~quotaExceeded )
        => StoredUnderKey(storage', fileValidationId', findingStatuses') ]_vars

(***************************************************************************)
(* C13: an edit of a displayed result whose storage write is refused runs  *)
(* to its end: localStorage is left as it was, the edited finding has the  *)
(* new status in memory, every status in memory is either the new status   *)
(* or what it was, and the page is updated from the new statuses.          *)
(***************************************************************************)
C13_FailedWriteAbsorbed ==
    [][ ( /\ last'.op \in MutationEvents
          /\ edits' = edits + 1
          /\ validationResult # Null
          /\ quotaExceeded )
        => /\ storage' = storage
           /\ DOMAIN findingStatuses \subseteq DOMAIN findingStatuses'
           /\ \A id \in DOMAIN findingStatuses' :
                  \/ findingStatuses'[id] = last'.newStatus
                  \/ id \in DOMAIN findingStatuses
                       /\ findingStatuses'[id] = findingStatuses[id]
           /\ last'.op = "detailStatusChange"
                  => findingStatuses' =
                         StatusSet(findingStatuses,
                                   FindingId(allFindings[last'.pos], last'.pos - 1),
                                   last'.newStatus)
           /\ (last'.op # "detailStatusChange" /\ findingStatuses' # findingStatuses)
                  => dom' = renderFindingGroups(
                                [dom EXCEPT !.summary =
                                     updateSummaryCardsFromStatus(allFindings,
                                                                  findingStatuses')],
                                allFindings, findingStatuses', filters,
                                currentCategory) ]_vars

\* an edit was made under an exceeded quota, and memory has moved away from
\* the entry stored for the result
C13_Witness ==
    /\ quotaExceeded
    /\ last.op \in MutationEvents
    /\ validationResult # Null
    /\ fileValidationId # Null
    /\ getStorageKey(fileValidationId[1]) \in DOMAIN storage
    /\ storage[getStorageKey(fileValidationId[1])].statuses = Some(EarlierStatuses)
    /\ findingStatuses # EarlierStatuses
    /\ \E id \in DOMAIN findingStatuses : findingStatuses[id] = last.newStatus

\* the step displays a result: the response of a validation, or a session
\* that loadSession accepts
DisplaysResult ==
    /\ last'.op \in {"displayResults", "loadSession"}
    /\ validationResult' # Null
    /\ last'.op = "loadSession" => errorToast' = Some("Sessie geladen")

\* the entry is not a saved state: its text does not parse to an object, its
\* version is not 1, or it has no statuses
NoSavedState(entry) ==
    entry.json # "object" \/ entry.version # 1 \/ entry.statuses = Null

(***************************************************************************)
(* C14: when a result is displayed and the entry stored under its key is   *)
(* malformed, of another version or without statuses, the store is empty   *)
(* afterwards, whatever it held before the load.                           *)
(***************************************************************************)
C14_UnusableEntryGivesEmptyStore ==
    [][ ( /\ DisplaysResult
          /\ fileValidationId' # Null
          /\ getStorageKey(fileValidationId'[1]) \in DOMAIN storage
          /\ NoSavedState(storage[getStorageKey(fileValidationId'[1])]) )
        => findingStatuses' = EmptyStatuses ]_vars

\* the status maps a displayed result may start from after the step: the
\* usable entry stored under its key, the map of the session it was imported
\* from, or the empty map
StoresOfResult ==
    LET key == getStorageKey(fileValidationId'[1])
        stored == IF /\ fileValidationId' # Null
                     /\ key \in DOMAIN storage
                     /\ ~NoSavedState(storage[key])
                  THEN {storage[key].statuses[1]}
                  ELSE {}
        imported == IF last'.op = "loadSession"
                    THEN {last'.session[1].findingStatuses}
                    ELSE {}
    IN  stored \cup imported \cup {EmptyStatuses}

(***************************************************************************)
(* C15: whenever a result is displayed, the store it starts with is the    *)
(* one stored under its key, the one of the session it was imported from,  *)
(* or the empty one: no entry of the store of a result displayed before    *)
(* carries over.                                                           *)
(***************************************************************************)
C15_NoCarryOver ==
    [][ DisplaysResult => findingStatuses' \in StoresOfResult ]_vars

(***************************************************************************)
(* C16: artifacts with different (fileName, validationTimestamp) have      *)
(* different keys, so a save never replaces the entry of another artifact: *)
(* whenever a stored entry is overwritten, the entry written records the   *)
(* same fileName and validationTimestamp as the entry it replaces.         *)
(***************************************************************************)
C16_NoForeignOverwrite ==
    [][ \A key \in DOMAIN storage :
            (storage'[key] # storage[key] /\ storage[key].json = "object")
                => /\ storage'[key].fileName = storage[key].fileName
                   /\ storage'[key].validationTimestamp = storage[key].validationTimestamp
      ]_vars

(***************************************************************************)
(* C17: the session file that downloadSession writes holds the result, the *)
(* store and the document of the page, and importing that file, whatever   *)
(* localStorage holds by then, leaves the page with exactly that result,   *)
(* that store and that document.                                           *)
(***************************************************************************)
C17_SessionRoundTrip ==
    [][ /\ (last'.op = "downloadSession" /\ validationResult # Null)
            => /\ downloads' # Null
               /\ downloads'[1].validationResult = validationResult[1]
               /\ downloads'[1].findingStatuses = findingStatuses
               /\ downloads'[1].xmlContent = originalXmlContent
        /\ (last'.op = "loadSession" /\ last'.session = downloads)
            => /\ validationResult' = Some(downloads[1].validationResult)
               /\ findingStatuses' = downloads[1].findingStatuses
               /\ originalXmlContent' = downloads[1].xmlContent ]_vars

\* the file is not a session: its text is not JSON, its type is not
\* "sivi-session", or it has no validationResult
NotASession(session) ==
    \/ session.json # "object"
    \/ session.type # "sivi-session"
    \/ session.validationResult = Null

\* the messages that report a successful action
SuccessMessages == {"Sessie geladen"}

(***************************************************************************)
(* C18: importing a file that is not a session shows an error and changes  *)
(* nothing: the result, the findings, the store, the document, the key,    *)
(* the selected file and localStorage are what they were.                  *)
(***************************************************************************)
C18_RejectedImportIsAtomic ==
    [][ (last'.op = "loadSession" /\ NotASession(last'.session[1]))
        => /\ errorToast' # Null
           /\ errorToast'[1] \notin SuccessMessages
           /\ UNCHANGED << validationResult, allFindings, findingStatuses,
                           originalXmlContent, fileValidationId, selectedFile,
                           storage, currentCategory, dom >> ]_vars

\* a file that is not a session was imported over a reviewed result
C18_Witness ==
    /\ last.op = "loadSession"
    /\ NotASession(last.session[1])
    /\ validationResult # Null
    /\ findingStatuses # EmptyStatuses
    /\ fileValidationId # Null
    /\ getStorageKey(fileValidationId[1]) \in DOMAIN storage

\* the timestamp a session file embeds for its result: the one of the
\* result, or the one of the session when the result has none
EmbeddedTimestamp(session) ==
    IF session.validationResult.timestamp # <<>>
    THEN session.validationResult.timestamp
    ELSE session.timestamp

(***************************************************************************)
(* C19: an accepted import leaves the page with the result, the store      *)
(* (empty when the session has none) and the document of the session, and  *)
(* with the key built from the fileName and the timestamp the session      *)
(* embeds; an edit of the displayed result is then stored under the key    *)
(* of the page.                                                            *)
(***************************************************************************)
C19_ImportReplacesAndRekeys ==
    [][ /\ (last'.op = "loadSession" /\ ~NotASession(last'.session[1]))
            => LET session == last'.session[1]
               IN  /\ validationResult' = Some(session.validationResult)
                   /\ allFindings' = session.validationResult.findings
                   /\ findingStatuses' = session.findingStatuses
                   /\ originalXmlContent' = session.xmlContent
                   /\ session.fileName # <<>>
                          => fileValidationId' =
                                 Some(FileValidationIdOf(session.fileName,
                                                         EmbeddedTimestamp(session)))
        /\ (last'.op \in MutationEvents /\ validationResult # Null)
            => StoredUnderKey(storage', fileValidationId, findingStatuses') ]_vars

(***************************************************************************)
(* C20: within a result the ids are unique: two different positions of     *)
(* allFindings never get the same id from generateFindingId, even when     *)
(* the findings at the two positions are equal in every field.             *)
(***************************************************************************)
C20_FindingIdsUnique ==
    \A i \in Positions, j \in Positions :
        i # j => generateFindingId(allFindings[i], i - 1)
                     # generateFindingId(allFindings[j], j - 1)

\* a result with the same finding at two positions, and with a finding
\* whose label suffix ends like an index
C20_Witness ==
    /\ \E i \in Positions, j \in Positions : i # j /\ allFindings[i] = allFindings[j]
    /\ \E i \in Positions : allFindings[i] = IdentityPoolSeq[2]
    /\ Len(dom.groups) > 0

\* the components an id is derived from: contract, entiteit, code, label
\* suffix and index
IdTuple(finding, index) ==
    << finding.contract, finding.entiteit, finding.code, LabelSuffix(finding), index >>

\* the JavaScript indexes of the positions of allFindings
Indexes == {p - 1 : p \in Positions}

(***************************************************************************)
(* C21: generateFindingId is injective over (contract, entiteit, code,     *)
(* labelSuffix, index): for any two findings of a result and any two       *)
(* indexes, tuples that differ in a component give different ids.          *)
(***************************************************************************)
C21_FindingIdInjective ==
    \A p \in Positions, q \in Positions, i \in Indexes, j \in Indexes :
        IdTuple(allFindings[p], i) # IdTuple(allFindings[q], j)
            => generateFindingId(allFindings[p], i) # generateFindingId(allFindings[q], j)

(***************************************************************************)
(* C22: every place that refers to a finding uses the id                   *)
(* generateFindingId(finding, position of the finding in allFindings):     *)
(* the rows of the table, the members of the groups and the pending bulk   *)
(* edit carry that id for the finding they stand for, under every filter,  *)
(* category and status state.                                              *)
(***************************************************************************)
C22_OneIdPerFinding ==
    validationResult # Null =>
        /\ \A r \in 1..Len(dom.rows) :
               dom.rows[r].findingId
                   = generateFindingId(allFindings[dom.rows[r].pos], dom.rows[r].pos - 1)
        /\ \A g \in 1..Len(dom.groups) : \A m \in 1..Len(dom.groups[g].members) :
               LET member == dom.groups[g].members[m]
               IN  member.findingId
                       = generateFindingId(allFindings[member.pos], member.pos - 1)
        /\ pendingBulkAction # Null =>
               pendingBulkAction[1].findingId
                   = generateFindingId(allFindings[pendingBulkAction[1].pos],
                                       pendingBulkAction[1].pos - 1)

\* the positions of the findings on display, group by group
ShownPositions ==
    UNION {{dom.groups[g].members[m].pos : m \in 1..Len(dom.groups[g].members)} :
              g \in 1..Len(dom.groups)}

\* the values and the words that make a finding a missing one
ValuesOfMissing ==
    { <<>>, <<"0">>, <<"0", ".", "0", "0">>, <<"0", ",", "0", "0">>,
      <<"n", "u", "l", "l">>, <<"u", "n", "d", "e", "f", "i", "n", "e", "d">> }
WordsOfMissing ==
    { <<"o", "n", "t", "b", "r", "e", "e", "k", "t">>,
      <<"o", "n", "t", "b", "r", "e", "k", "e", "n", "d">>, <<"l", "e", "e", "g">>,
      <<"n", "i", "e", "t", " ", "i", "n", "g", "e", "v", "u", "l", "d">>,
      <<"v", "e", "r", "p", "l", "i", "c", "h", "t">>,
      <<"m", "i", "s", "s", "i", "n", "g">> }

\* the two rules, in order
MissingByValue(finding) == ToLowerCase(Trim(finding.waarde)) \in ValuesOfMissing
MissingByDescription(finding) ==
    \E w \in WordsOfMissing : Includes(ToLowerCase(finding.omschrijving), w)

(***************************************************************************)
(* C23: a finding whose trimmed, case-folded waarde is "", "0", "0.00",    *)
(* "0,00", "null" or "undefined" is missing whatever its description;      *)
(* otherwise a finding whose case-folded description holds one of the six  *)
(* words is missing; every other finding is a content error.  Every        *)
(* finding has exactly one of the two categories: the tab of a category    *)
(* shows the findings of that category and no other.                       *)
(***************************************************************************)
C23_CategoryByRule ==
    validationResult # Null =>
        /\ \A p \in Positions :
               categorizeFinding(allFindings[p])
                   = IF MissingByValue(allFindings[p]) THEN "ontbrekend"
                     ELSE IF MissingByDescription(allFindings[p]) THEN "ontbrekend"
                     ELSE "inhoudelijk"
        /\ ShownPositions =
               {p \in Positions :
                   \/ currentCategory = "all"
                   \/ /\ currentCategory = "ontbrekend"
                      /\ MissingByValue(allFindings[p]) \/ MissingByDescription(allFindings[p])
                   \/ /\ currentCategory = "inhoudelijk"
                      /\ ~MissingByValue(allFindings[p])
                      /\ ~MissingByDescription(allFindings[p])}

\* the tab of the missing values shows a finding with a value " NULL" and a
\* finding with the description "Leeg", and not the content error next to
\* them
C23_Witness ==
    /\ currentCategory = "ontbrekend"
    /\ allFindings = << GroupingPoolSeq[1], GroupingPoolSeq[2], GroupingPoolSeq[3] >>
    /\ ShownPositions = {2, 3}

\* the nine themes
Themas ==
    {"structuur", "labels", "codes", "format", "premie", "datums", "branche",
     "validatie", "overig"}

\* the codes of the lookup table that the findings of the model use
CodesOfTable == {Code("1", "0", "1"), Code("2", "0", "2")}

(***************************************************************************)
(* C24: getThema gives every finding one of the nine themes, and overig    *)
(* when the code is not in the lookup table (a missing code included);     *)
(* getThemaSortOrder gives the nine themes the ranks 1..9 with overig      *)
(* last, so the theme of every finding, and of every group on display,     *)
(* has a rank in 1..9.                                                     *)
(***************************************************************************)
C24_ThemaTotalAndRanked ==
    /\ {getThemaSortOrder(thema) : thema \in Themas} = 1..9
    /\ getThemaSortOrder("overig") = 9
    /\ \A p \in Positions :
           /\ getThema(allFindings[p]) \in Themas
           /\ allFindings[p].code \notin CodesOfTable => getThema(allFindings[p]) = "overig"
           /\ getThemaSortOrder(getThema(allFindings[p])) \in 1..9
    /\ \A g \in 1..Len(dom.groups) : dom.groups[g].thema \in Themas

\* the fields a group is made by
GroupFields(finding) == << finding.code, LabelSuffix(finding), finding.omschrijving >>

\* the positions of the members of group g on display
MemberPositions(g) ==
    {dom.groups[g].members[m].pos : m \in 1..Len(dom.groups[g].members)}

RECURSIVE SumOfCounts(_)
\* the sum of the member counts of a list of groups
SumOfCounts(groups) ==
    IF groups = <<>> THEN 0
    ELSE Len(Head(groups).members) + SumOfCounts(Tail(groups))

(***************************************************************************)
(* C25: the groups on display partition the findings that were grouped:    *)
(* every such finding is a member of exactly one group, two findings are   *)
(* in one group if and only if they agree on code, label suffix and        *)
(* description, no group is empty, the member counts add up to the number  *)
(* of findings grouped, and every member has the theme of its group.       *)
(***************************************************************************)
C25_GroupsPartition ==
    validationResult # Null =>
        LET grouped == {p \in Positions :
                           currentCategory \in {"all", categorizeFinding(allFindings[p])}}
            groups == 1..Len(dom.groups)
        IN  /\ \A p \in grouped : Cardinality({g \in groups : p \in MemberPositions(g)}) = 1
            /\ \A p \in grouped, q \in grouped :
                   (\E g \in groups : {p, q} \subseteq MemberPositions(g))
                       <=> GroupFields(allFindings[p]) = GroupFields(allFindings[q])
            /\ \A g \in groups : Len(dom.groups[g].members) > 0
            /\ SumOfCounts(dom.groups) = Cardinality(grouped)
            /\ \A g \in groups : \A p \in MemberPositions(g) :
                   getThema(allFindings[p]) = dom.groups[g].thema

(***************************************************************************)
(* C26: the groups on display are ordered by the rank of their theme,      *)
(* ascending, and within one rank by member count, descending; the groups  *)
(* of one theme follow one another.                                        *)
(***************************************************************************)
C26_GroupsOrdered ==
    \A g \in 1..Len(dom.groups), h \in 1..Len(dom.groups) :
        g < h =>
            /\ \/ getThemaSortOrder(dom.groups[g].thema) < getThemaSortOrder(dom.groups[h].thema)
               \/ /\ getThemaSortOrder(dom.groups[g].thema)
                         = getThemaSortOrder(dom.groups[h].thema)
                  /\ Len(dom.groups[g].members) >= Len(dom.groups[h].members)
            /\ dom.groups[g].thema = dom.groups[h].thema =>
                   \A k \in g..h : dom.groups[k].thema = dom.groups[g].thema

\* the keys and the member positions of a list of groups, in order
Membership(groups, Members(_)) ==
    [g \in 1..Len(groups) |->
        [ key |-> groups[g].key,
          members |-> [m \in 1..Len(Members(groups[g])) |-> Members(groups[g])[m].pos] ]]

(***************************************************************************)
(* C27: after every status mutation (detail, group or theme edit) and      *)
(* every filter or category change, the groups on display and their        *)
(* members are the groups of the filtered, category-filtered findings,     *)
(* computed with the current filters, category and statuses; with the      *)
(* status filter at OPEN no finding on display has another status.         *)
(***************************************************************************)
C27_ShownGroupsAreCurrent ==
    (last.op \in MutationEvents \cup {"filterChange", "categoryTab"}) =>
        /\ Membership(dom.groups, LAMBDA g : g.members)
               = Membership(SortedGroups(allFindings, findingStatuses, filters,
                                         currentCategory),
                            LAMBDA g : g.findings)
        /\ filters.status = STATUS_OPEN =>
               \A g \in 1..Len(dom.groups) : \A m \in 1..Len(dom.groups[g].members) :
                   StatusOfPos(dom.groups[g].members[m].pos) = STATUS_OPEN

\* the findings of the result that are not OPEN
HandledPositions == {p \in Positions : StatusOfPos(p) # STATUS_OPEN}

\* 100 * n / d rounded to the nearest integer, a half going up
RoundedPercent(n, d) == (200 * n + d) \div (2 * d)

(***************************************************************************)
(* C28: the progress on display reports total = the number of findings,    *)
(* handled = the number of findings whose status is not OPEN, and          *)
(* percentage = 100 * handled / total rounded to the nearest integer, or   *)
(* 0 when there are no findings.                                           *)
(***************************************************************************)
C28_ProgressIsRoundedShare ==
    (validationResult # Null /\ dom.progress # Null) =>
        LET total == Len(allFindings)
            handled == Cardinality(HandledPositions)
        IN  dom.progress[1] =
                [ handled |-> handled, total |-> total,
                  percentage |-> IF total = 0 THEN 0 ELSE RoundedPercent(handled, total) ]

\* the OPEN findings of the result with one of the given criticalities
OpenOf(criticalities) ==
    {p \in Positions \ HandledPositions : allFindings[p].criticality \in criticalities}

\* a result has just been displayed, from a validation or from a session
ResultDisplayed ==
    \/ last.op = "displayResults"
    \/ last.op = "loadSession" /\ errorToast = Some("Sessie geladen")

(***************************************************************************)
(* C29: when a result has just been displayed (statuses restored from      *)
(* storage or from a session included) and after every status mutation,    *)
(* the KRITIEK, AANDACHT and INFO cards show the number of OPEN findings   *)
(* of that criticality, and the three add up to total minus handled.       *)
(***************************************************************************)
C29_CardsCountOpenOnly ==
    (validationResult # Null /\ (ResultDisplayed \/ last.op \in MutationEvents)) =>
        /\ dom.summary # Null
        /\ dom.summary[1].kritiek = Cardinality(OpenOf({"KRITIEK"}))
        /\ dom.summary[1].aandacht = Cardinality(OpenOf({"AANDACHT"}))
        /\ dom.summary[1].info = Cardinality(OpenOf({"INFO"}))
        /\ dom.summary[1].kritiek + dom.summary[1].aandacht + dom.summary[1].info
               = Len(allFindings) - Cardinality(HandledPositions)

\* the two pages of the origin
Sessions == {ThisPage, peer}

\* the statuses of the entry stored under key are those of a page with that key
HeldBySomeSession(key) ==
    \E session \in Sessions :
        /\ session.fileValidationId # Null
        /\ key = getStorageKey(session.fileValidationId[1])
        /\ storage[key].statuses = Some(session.findingStatuses)

(***************************************************************************)
(* C30: with two pages reviewing the same artifact under one storage key,  *)
(* every status edit whose write storage accepts replaces the entry under  *)
(* the key by the whole in-memory map of the page that made the edit and   *)
(* leaves every other key alone, whatever the other page stored before; no *)
(* other step changes storage; so while storage accepts writes each stored *)
(* entry holds the in-memory map of one of the two pages.                  *)
(***************************************************************************)
C30_LastWriteWins ==
    /\ [][ IF edits' = edits + 1 /\ ~quotaExceeded
           THEN /\ fileValidationId # Null
                /\ fileValidationId' = fileValidationId
                /\ DOMAIN storage' = (DOMAIN storage) \cup {getStorageKey(fileValidationId[1])}
                /\ storage'[getStorageKey(fileValidationId[1])].statuses
                       = Some(findingStatuses')
                /\ \A key \in (DOMAIN storage) \ {getStorageKey(fileValidationId[1])} :
                       storage'[key] = storage[key]
           ELSE storage' = storage ]_vars
    /\ [](~quotaExceeded => \A key \in DOMAIN storage : HeldBySomeSession(key))

\* a lost update: both pages have the result open under one key, each map in
\* memory came from storage or from edits the page saved, and the entry
\* stored last is the map of this page, without a status the other page saved
C30_Witness ==
    /\ ~quotaExceeded
    /\ last.op \in MutationEvents
    /\ fileValidationId # Null
    /\ peer.fileValidationId = fileValidationId
    /\ StoredUnderKey(storage, fileValidationId, findingStatuses)
    /\ \E id \in DOMAIN peer.findingStatuses :
           /\ peer.findingStatuses[id] # STATUS_OPEN
           /\ id \notin DOMAIN findingStatuses

\* the review state is empty
ReviewStateCleared ==
    /\ validationResult = Null
    /\ allFindings = <<>>
    /\ findingStatuses = EmptyStatuses
    /\ fileValidationId = Null
    /\ originalXmlContent = Null

\* the step is the arrival of a validation response
ResponseArrives ==
    /\ inFlight # Null
    /\ inFlight' = Null
    /\ last'.op = "displayResults"

\* no entry is stored under the key of fvid
NothingStoredFor(fvid) ==
    fvid = Null \/ getStorageKey(fvid[1]) \notin DOMAIN storage

(***************************************************************************)
(* C31: after the back button is clicked the result, the findings, the     *)
(* status store, the persistence key and the source document are all empty *)
(* at some later moment, and the result of a validation is displayed with  *)
(* no status other than OPEN in the status store when nothing is stored    *)
(* under its key.                                                          *)
(***************************************************************************)
C31_BackClearsReviewState ==
    /\ (last.op = "showUploadView") ~> ReviewStateCleared
    /\ [][ (ResponseArrives /\ NothingStoredFor(fileValidationId'))
               => \A id \in DOMAIN findingStatuses' :
                      findingStatuses'[id] = STATUS_OPEN ]_vars

(***************************************************************************)
(* C32: every value held in the status store is one of the four statuses   *)
(* OPEN, GEACCEPTEERD, GENEGEERD and OPGELOST.                              *)
(***************************************************************************)
C32_StoreHoldsStatuses ==
    \A id \in DOMAIN findingStatuses : findingStatuses[id] \in StatusOptions

\* the ids of the findings of the active result
IdsOfResult == {FindingId(allFindings[p], p - 1) : p \in Positions}

\* the ids whose entry of the status store the step writes
IdsWritten ==
    {id \in DOMAIN findingStatuses' :
        id \notin DOMAIN findingStatuses \/ findingStatuses'[id] # findingStatuses[id]}

(***************************************************************************)
(* C33: when "only this one" or "apply to all" is clicked in a pending     *)
(* confirmation while a result is active, every id it writes into the      *)
(* status store, and with it into the stored entry, is the id of a finding *)
(* of that result: a confirmation raised for an earlier result writes      *)
(* nothing.                                                                *)
(***************************************************************************)
C33_PendingDiesWithResult ==
    [][ ( /\ pendingBulkAction # Null
          /\ last'.op \in {"bulkActionSingle", "bulkActionAll"}
          /\ validationResult # Null )
        => IdsWritten \subseteq IdsOfResult ]_vars

(***************************************************************************)
(* C34: when a validation response arrives, the persistence key is built   *)
(* from the name of the file that was submitted and the timestamp of the   *)
(* new result, the status store holds what is stored under that key or no  *)
(* status other than OPEN, and the source document is the one read when    *)
(* the file was submitted.                                                 *)
(***************************************************************************)
C34_ResponseBelongsToSubmittedFile ==
    [][ ResponseArrives
        => /\ fileValidationId' =
                  Some(FileValidationIdOf(inFlight[1].name,
                                          validationResult'[1].timestamp))
           /\ \/ StoredUnderKey(storage, fileValidationId', findingStatuses')
              \/ \A id \in DOMAIN findingStatuses' :
                     findingStatuses'[id] = STATUS_OPEN
           /\ originalXmlContent' # Null
           /\ originalXmlContent'[1] \in Docs ]_vars

\* the step is the delayed hideResults of a back action
HideResultsRuns ==
    /\ timers # <<>>
    /\ Head(timers) = "upload"
    /\ timers' = Tail(timers)
    /\ last'.op = "hideResults"

(***************************************************************************)
(* C35: when the delayed hideResults of a back action runs after a session *)
(* import or a validation has displayed a result since the back button was *)
(* clicked (its switch to the results view is still scheduled behind the   *)
(* clear), that result and its status store are left as they are.          *)
(***************************************************************************)
C35_DelayedClearSparesNewResult ==
    [][ (HideResultsRuns /\ \E i \in 2..Len(timers) : timers[i] = "results")
        => /\ validationResult' = validationResult
           /\ allFindings' = allFindings
           /\ findingStatuses' = findingStatuses
           /\ fileValidationId' = fileValidationId ]_vars

(***************************************************************************)
(* C36: the percentage of the progress bar is an integer from 0 to 100; of *)
(* a result with findings it is 100 only when every finding is handled and *)
(* 0 only when none is.                                                    *)
(***************************************************************************)
C36_PercentageEndsAreExact ==
    dom.progress # Null =>
        LET progress == dom.progress[1]
        IN  /\ progress.percentage \in 0..100
            /\ progress.total > 0 =>
                   /\ progress.percentage = 100 => progress.handled = progress.total
                   /\ progress.percentage = 0 => progress.handled = 0

\* the findings of the current filtered view: filterFindings, then the
\* category filter
ViewPositions ==
    LET view37 == categoryFilter(allFindings,
                                 filterFindings(allFindings, findingStatuses, filters),
                                 currentCategory)
    IN  {view37[i] : i \in 1..Len(view37)}

\* the findings the current filter or category hides
HiddenPositions == Positions \ ViewPositions

\* the findings whose status an action changes
ChangedPositions == {p \in Positions : StatusOfPos(p)' # StatusOfPos(p)}

\* a confirmation is raised by the edit of table row r
RaisedByRow(r) ==
    /\ \E newStatus \in StatusOptions : StatusSelectChange(r, newStatus)
    /\ pendingBulkAction = Null
    /\ pendingBulkAction' # Null

(***************************************************************************)
(* C37: the similar set of a single-finding edit ranges over all findings  *)
(* of the result: it holds every other finding with the edited finding's   *)
(* BulkKey that is OPEN, the findings hidden by the filter or the category *)
(* included, and apply-to-all gives each of them the new status; a         *)
(* group-level edit changes only findings that are members of the group in *)
(* the current filtered view, and no finding the filters exclude.          *)
(***************************************************************************)
C37_ScopesDiffer ==
    [][ /\ \A r \in 1..MaxFindings :
               RaisedByRow(r) =>
                   /\ OtherOpenSimilar(dom.rows[r].pos) \cap HiddenPositions
                          \subseteq SimilarPositions(pendingBulkAction'[1].similarFindings)
                   /\ SimilarPositions(pendingBulkAction'[1].similarFindings) \subseteq Positions
        /\ BulkActionAllClick =>
               \A p \in SimilarPositions(pendingBulkAction[1].similarFindings) :
                   p \in Positions => StatusOfPos(p)' = pendingBulkAction[1].newStatus
        /\ \A g \in 1..MaxFindings :
               (\E newStatus \in StatusOptions : GroupStatusChange(g, newStatus)) =>
                   ChangedPositions \subseteq
                       {p \in ViewPositions : GroupKey(allFindings[p]) = dom.groups[g].key}
      ]_vars

\* the operations that write statuses: single edits, the two commits of a
\* confirmation, group and theme edits
StatusMutations ==
    {"handleStatusChange", "bulkActionSingle", "bulkActionAll", "detailStatusChange",
     "applyGroupStatusChange", "applyThemaStatusChange"}

\* the keys of localStorage whose entry an action adds, removes or rewrites
KeysTouched ==
    {k \in (DOMAIN storage) \cup (DOMAIN storage') :
        \/ k \notin DOMAIN storage
        \/ k \notin DOMAIN storage'
        \/ storage'[k] # storage[k]}

(***************************************************************************)
(* C38: no operation deletes or rewrites a stored entry other than the one *)
(* under the current key: back navigation (with its delayed clear),        *)
(* session import, session export, filter and category changes, and        *)
(* cancelling a confirmation leave localStorage unchanged, as does every   *)
(* operation that is not a status mutation; a status mutation touches at   *)
(* most the entry under the key of the page at that moment.                *)
(***************************************************************************)
C38_OnlyCurrentKeyWritten ==
    [][ /\ last'.op \notin StatusMutations => storage' = storage
        /\ last'.op \in StatusMutations =>
               /\ fileValidationId = Null => storage' = storage
               /\ fileValidationId # Null =>
                      KeysTouched \subseteq {getStorageKey(fileValidationId[1])} ]_vars

\* an edit has just been stored under the current key while localStorage
\* holds the entry of another artifact
C38_Witness ==
    /\ last.op \in StatusMutations
    /\ fileValidationId # Null
    /\ StoredUnderKey(storage, fileValidationId, findingStatuses)
    /\ \E k \in DOMAIN storage : k # getStorageKey(fileValidationId[1])

=============================================================================
